---- MODULE Spec2Model ----
(***************************************************************************)
(* LensBlock: the SecurityController frame loop (security/controller.py),  *)
(* its lockout state machine (_evaluate_state), the Censorship redaction   *)
(* pipeline with the inline IoU tracker, and the operations the UI thread  *)
(* calls on the controller (pause_monitoring, resume_monitoring,           *)
(* set_protection_mode, the dashboard's config.set).                       *)
(*                                                                         *)
(* Two threads touch the controller's fields without a lock: the QThread   *)
(* that executes run(), and the Qt main thread.  run() is modelled as a    *)
(* process whose position is pc; the UI operations are atomic actions     *)
(* that interleave between the steps of a cycle.  Each block of run()     *)
(* between two reads of the shared mode/monitoring flags is one step.     *)
(*                                                                         *)
(* Confidences are percentages (0.60 -> 60), times are whole ticks of the  *)
(* wall clock, a frame is [cap, blur, tag]: which capture it shows, which  *)
(* padded boxes were blurred into it, and what kind of picture it is.      *)
(***************************************************************************)
EXTENDS Integers, Sequences, FiniteSets, TLC

VARIABLES
  now,                        \* time.time()
  config,                     \* ConfigHandler.config: thr, pers, log, lock
  current_frame,              \* CameraStream.current_frame (capture number, 0 = None)
  monitoring_active,
  protection_mode,
  consecutive_threat_frames,
  is_threat_active,
  incident_start_time,
  max_threat_confidence,
  lockout_end_time,
  active_threats,             \* _active_threats: id -> [box, cooldown]
  next_threat_id,             \* _next_threat_id
  last_censored_frame,        \* _last_censored_frame
  pc,                         \* position of run() inside its cycle
  raw_frame, frame,           \* locals of run()
  detected, confidence, boxes, inference_slow,
  branch,                     \* which pipeline the cycle was dispatched to
  vcam_out,                   \* the frame given to vcam.send in the cycle just ended
  log,                        \* rows of security_logs, oldest first
  emitted,                    \* threat_detected emissions of the last step
  last,                       \* the last step taken and the lockout fields before it
  hist,                       \* what a sequential harness has fed so far
  matched_ids,                \* matched_ids of the tracking loop, while it runs step by step
  preview_out,                \* the frame given to frame_ready.emit in the current cycle
  is_running,                 \* SecurityController.is_running
  pending_camera_restart,
  pending_model_restart,
  camera,                     \* which CameraStream instance self.camera refers to
  cams,                       \* per CameraStream instance: capture thread alive, device open
  engine,                     \* self.engine: instance number and whether its session loaded
  stop_call,                  \* position of the UI thread inside stop(), and the camera it acts on
  camera_idx, model_path      \* locals of the restart blocks of run()

restartLocals == << camera_idx, model_path >>

lifeVars == << is_running, pending_camera_restart, pending_model_restart,
              camera, cams, engine, stop_call, restartLocals >>

vars == << now, config, current_frame, monitoring_active, protection_mode,
           consecutive_threat_frames, is_threat_active, incident_start_time,
           max_threat_confidence, lockout_end_time, active_threats,
           next_threat_id, last_censored_frame, pc, raw_frame, frame,
           detected, confidence, boxes, inference_slow, branch, vcam_out,
           log, emitted, last, hist, matched_ids, preview_out, lifeVars >>

lockoutVars == << consecutive_threat_frames, is_threat_active,
                  incident_start_time, max_threat_confidence, lockout_end_time >>
censorVars == << active_threats, next_threat_id, last_censored_frame >>
localVars == << raw_frame, frame, detected, confidence, boxes, inference_slow, branch >>

----------------------------------------------------------------------------
(* Bounds of the model *)

MaxNow == 4            \* cycles start while now < MaxNow
MaxCapture == 2        \* captures the camera thread delivers
MaxFrames == 6         \* frames fed by the sequential harness
MaxPersistence == 3    \* persistence_frames ranges over 1..MaxPersistence there
LockoutTicks == 1      \* detection.lockout_duration_seconds, in ticks

(* Program constants *)

NoTime == 0 - 1                \* incident_start_time = None
NoId == 0 - 1                  \* best_id = None
InitialLockoutEnd == 0         \* lockout_end_time = 0.0
InitialConfidence == 0         \* max_threat_confidence = 0.0
FrameW == 640
FrameH == 480
CensorCooldownFrames == 10     \* _censor_cooldown_frames
RoiPaddingPercent == 20        \* _roi_padding = 0.20
IouMatchPercent == 30          \* best_iou > 0.3

Confs == {30, 60, 70}
ThrChoices == {60}
PersChoices == {1, 2}
CycleTicks == {1, 2}           \* how long a cycle can last
\* the candidate boxes one frame can carry: an object, the same object after
\* it moved a little, and that object with a second one elsewhere
BoxLists == { << <<100, 100, 200, 200>> >>,
              << <<110, 110, 210, 210>>, <<400, 300, 500, 400>> >> }

Max(a, b) == IF a >= b THEN a ELSE b
Min(a, b) == IF a <= b THEN a ELSE b

\* at: the clock value of the cycle that redacted the frame (0: not redacted)
NoFrame == [cap |-> 0, blur |-> {}, tag |-> "none", at |-> 0]
LiveFrame(c) ==
  IF c = 0 THEN NoFrame ELSE [cap |-> c, blur |-> {}, tag |-> "live", at |-> 0]
BlockedFrame == [cap |-> 0, blur |-> {}, tag |-> "blocked", at |-> 0]
\* preview_frame = raw_frame.copy() with "AI PAUSED" written into it
PausedFrame(f) == [f EXCEPT !.tag = "paused"]

\* last: the step just taken when it is one that can move the lockout fields,
\* with is_threat_active and lockout_end_time as they were before it
NoLast == [act |-> "other", active |-> FALSE, lockEnd |-> InitialLockoutEnd, qual |-> FALSE]
Snapshot(a, q) == [act |-> a, active |-> is_threat_active, lockEnd |-> lockout_end_time,
                   qual |-> q]

----------------------------------------------------------------------------
(* Geometry: _compute_iou and the ROI padding of the redaction loop *)

BoxArea(b) == (b[3] - b[1]) * (b[4] - b[2])

IouInter(a, b) ==
  Max(0, Min(a[3], b[3]) - Max(a[1], b[1])) * Max(0, Min(a[4], b[4]) - Max(a[2], b[2]))

IouUnion(a, b) == BoxArea(a) + BoxArea(b) - IouInter(a, b)

\* inter / union if union > 0 else 0.0, kept as the fraction <<numerator, denominator>>
ComputeIou(a, b) ==
  IF IouUnion(a, b) > 0 THEN << IouInter(a, b), IouUnion(a, b) >> ELSE << 0, 1 >>

FracGreater(p, q) == p[1] * q[2] > q[1] * p[2]

\* variant: the 20% is split between the two sides
PadAmountSplit(extent) == (extent * RoiPaddingPercent) \div 200

\* int(bw * 0.20): truncation of a non-negative product
PadAmount(extent) == (extent * RoiPaddingPercent) \div 100

PadBox(b, fw, fh) ==
  << Max(0, b[1] - PadAmount(b[3] - b[1])),
     Max(0, b[2] - PadAmount(b[4] - b[2])),
     Min(fw, b[3] + PadAmount(b[3] - b[1])),
     Min(fh, b[4] + PadAmount(b[4] - b[2])) >>

\* roi.size > 0 for the slice sanitized[y1:y2, x1:x2]
RoiNonEmpty(b) == b[3] > b[1] /\ b[4] > b[2]

----------------------------------------------------------------------------
(* The inline tracker of run(): threat memory update with IoU matching *)

RECURSIVE SortedIds(_)
\* a dict iterates in insertion order; ids are inserted in increasing order
SortedIds(S) ==
  IF S = {} THEN << >>
  ELSE LET m == CHOOSE x \in S : \A y \in S : x <= y
       IN << m >> \o SortedIds(S \ {m})

RECURSIVE BestMatchLastWins(_, _, _, _)
\* variant: "if iou >= best_iou", a later region with the same IoU takes the match
BestMatchLastWins(box, mem, ids, best) ==
  IF ids = << >> THEN best
  ELSE LET tid == Head(ids)
           iou == ComputeIou(box, mem[tid].box)
       IN BestMatchLastWins(box, mem, Tail(ids),
                            IF ~FracGreater(best[1], iou) THEN << iou, tid >> ELSE best)

RECURSIVE BestMatch(_, _, _, _)
\* the scan "for tid, tdata in self._active_threats.items()":
\* best = <<best_iou, best_id>>, best_id = NoId for None
BestMatch(box, mem, ids, best) ==
  IF ids = << >> THEN best
  ELSE LET tid == Head(ids)
           iou == ComputeIou(box, mem[tid].box)
       IN BestMatch(box, mem, Tail(ids),
                    IF FracGreater(iou, best[1]) THEN << iou, tid >> ELSE best)

\* variant: any overlap at all counts as a match
IsMatchAnyOverlap(best) == FracGreater(best[1], << 0, 1 >>) /\ best[2] # NoId

IsMatch(best) == FracGreater(best[1], << IouMatchPercent, 100 >>) /\ best[2] # NoId

\* variant: a matched region keeps the cooldown it had
TrackBoxKeepsCooldown(st, box) ==
  LET best == BestMatch(box, st.mem, SortedIds(DOMAIN st.mem), << << 0, 1 >>, NoId >>)
  IN IF IsMatch(best)
     THEN [ mem |-> [ st.mem EXCEPT ![best[2]].box = box ],
            next |-> st.next,
            matched |-> st.matched \cup {best[2]} ]
     ELSE [ mem |-> [ t \in DOMAIN st.mem \cup {st.next} |->
                        IF t = st.next THEN [box |-> box, cooldown |-> 0] ELSE st.mem[t] ],
            next |-> st.next + 1,
            matched |-> st.matched \cup {st.next} ]

\* one iteration of "for box in boxes" on st = [mem, next, matched]
TrackBox(st, box) ==
  LET best == BestMatch(box, st.mem, SortedIds(DOMAIN st.mem), << << 0, 1 >>, NoId >>)
  IN IF IsMatch(best)
     THEN [ mem |-> [ st.mem EXCEPT ![best[2]] = [box |-> box, cooldown |-> 0] ],
            next |-> st.next,
            matched |-> st.matched \cup {best[2]} ]
     ELSE [ mem |-> [ t \in DOMAIN st.mem \cup {st.next} |->
                        IF t = st.next THEN [box |-> box, cooldown |-> 0] ELSE st.mem[t] ],
            next |-> st.next + 1,
            matched |-> st.matched \cup {st.next} ]

RECURSIVE TrackBoxes(_, _)
TrackBoxes(st, bs) ==
  IF bs = << >> THEN st ELSE TrackBoxes(TrackBox(st, Head(bs)), Tail(bs))

\* variant: "cooldown >= limit", the region goes one step early
AgeThreatsEvictAtLimit(mem, matched) ==
  LET aged == [ t \in DOMAIN mem |->
                  IF t \in matched THEN mem[t]
                  ELSE [ mem[t] EXCEPT !.cooldown = @ + 1 ] ]
      keep == { t \in DOMAIN mem :
                  t \in matched \/ ~(aged[t].cooldown >= CensorCooldownFrames) }
  IN [ t \in keep |-> aged[t] ]

\* "Age unmatched threats" and the deletion of the expired ones
AgeThreats(mem, matched) ==
  LET aged == [ t \in DOMAIN mem |->
                  IF t \in matched THEN mem[t]
                  ELSE [ mem[t] EXCEPT !.cooldown = @ + 1 ] ]
      keep == { t \in DOMAIN mem :
                  t \in matched \/ ~(aged[t].cooldown > CensorCooldownFrames) }
  IN [ t \in keep |-> aged[t] ]

UpdateThreats(mem, next, bs) ==
  LET st == TrackBoxes([mem |-> mem, next |-> next, matched |-> {}], bs)
  IN [ mem |-> AgeThreats(st.mem, st.matched), next |-> st.next ]

\* the padded boxes the triple Gaussian blur is written into
BlurredRegions(mem) ==
  { b \in { PadBox(mem[t].box, FrameW, FrameH) : t \in DOMAIN mem } : RoiNonEmpty(b) }

\* sanitized = raw_frame.copy() with every active threat blurred, at clock value t
Sanitize(f, mem, t) ==
  [ cap |-> f.cap, blur |-> f.blur \cup BlurredRegions(mem), tag |-> "sanitized", at |-> t ]

----------------------------------------------------------------------------
(* _evaluate_state: the lockout state machine *)

\* variant: any detection counts, whatever its confidence
IsHighConfidenceAnyScore(d, c, thr) == d

IsHighConfidence(d, c, thr) == d /\ c >= thr

\* variant: the counter decays by one instead of dropping to zero
NextConsecutiveDecay(cnt, high) == IF high THEN cnt + 1 ELSE Max(0, cnt - 1)

NextConsecutive(cnt, high) == IF high THEN cnt + 1 ELSE 0

NextMaxConfidence(maxc, high, c) == IF high /\ c > maxc THEN c ELSE maxc

\* variant: fixed duration from entry, the timer is never extended
ExtendLockoutNever(lockEnd, high, active, t, dur) == lockEnd

\* "if self.is_threat_active: self.lockout_end_time = current_time + lockout_duration"
ExtendLockout(lockEnd, high, active, t, dur) ==
  IF high /\ active THEN t + dur ELSE lockEnd

EnterCondition(cnt, pers, active) == cnt >= pers /\ ~active

\* variant: the timer counts as elapsed at the instant it expires
ExitConditionAtExpiry(cnt, pers, active, t, lockEnd) ==
  ~(cnt >= pers) /\ cnt = 0 /\ active /\ t >= lockEnd

ExitCondition(cnt, pers, active, t, lockEnd) ==
  ~(cnt >= pers) /\ cnt = 0 /\ active /\ t > lockEnd

\* "current_time - self.incident_start_time if self.incident_start_time else 0.0"
IncidentDuration(t, start) == IF start # NoTime /\ start # 0 THEN t - start ELSE 0

LogRow(type, c, dur) == [type |-> type, conf |-> c, dur |-> dur]

\* max(0, int(self.lockout_end_time - current_time))
Remaining(lockEnd, t) == Max(0, lockEnd - t)

\* variant: the record is written whatever the logging setting
ExitRecordAlways(enabled, rows, row) == Append(rows, row)

\* "if log_enabled: self.logger.log_threat(...)"
ExitRecord(enabled, rows, row) == IF enabled THEN Append(rows, row) ELSE rows

\* variant: listeners are notified at transitions only
ContinuousEmissionNever(active, lockEnd, t) == << >>

\* "if self.is_threat_active: ... self.threat_detected.emit(True, remaining)"
ContinuousEmission(active, lockEnd, t) ==
  IF active THEN << << TRUE, Remaining(lockEnd, t) >> >> ELSE << >>

EvaluateState(d, c) ==
  LET high == IsHighConfidence(d, c, config.thr)
      cnt == NextConsecutive(consecutive_threat_frames, high)
      maxc == NextMaxConfidence(max_threat_confidence, high, c)
      lockA == ExtendLockout(lockout_end_time, high, is_threat_active, now, config.lock)
      enter == EnterCondition(cnt, config.pers, is_threat_active)
      exit == ExitCondition(cnt, config.pers, is_threat_active, now, lockA)
      activeB == IF enter THEN TRUE ELSE IF exit THEN FALSE ELSE is_threat_active
      lockB == IF enter THEN now + config.lock
               ELSE IF exit THEN InitialLockoutEnd ELSE lockA
  IN /\ consecutive_threat_frames' = cnt
     /\ is_threat_active' = activeB
     /\ incident_start_time' = IF enter THEN now
                               ELSE IF exit THEN NoTime ELSE incident_start_time
     /\ max_threat_confidence' = IF exit THEN InitialConfidence ELSE maxc
     /\ lockout_end_time' = lockB
     /\ log' = IF exit
               THEN ExitRecord(config.log, log,
                               LogRow("Cell phone visual intrusion", maxc,
                                      IncidentDuration(now, incident_start_time)))
               ELSE log
     /\ emitted' = (IF enter THEN << << TRUE, (now + config.lock) - now >> >>
                    ELSE IF exit THEN << << FALSE, 0 >> >> ELSE << >>)
                   \o ContinuousEmission(activeB, lockB, now)

----------------------------------------------------------------------------
(* Inputs from the environment *)

\* YoloV8Engine.detect: (False, 0.0), or (True, best phone score)
DetectResults == { << FALSE, 0 >> } \cup { << TRUE, c >> : c \in Confs }

\* detect_with_boxes(frame, conf_threshold): the candidate boxes whose score
\* reaches the threshold, whether there is any, and the best score
DetectWithBoxesResults(thr) ==
  { [detected |-> FALSE, confidence |-> 0, boxes |-> << >>] } \cup
  { [detected |-> TRUE, confidence |-> c, boxes |-> bs] :
      c \in { x \in Confs : x >= thr }, bs \in BoxLists }

\* what detect can return from this engine: "if self.session is None ...:
\* return False, 0.0", and the same after an inference error
EngineDetect(session) ==
  IF session THEN DetectResults ELSE { << FALSE, 0 >> }

\* detect_with_boxes degrades to "no detection" in the same way
EngineDetectWithBoxes(session, thr) ==
  IF session THEN DetectWithBoxesResults(thr)
  ELSE { [detected |-> FALSE, confidence |-> 0, boxes |-> << >>] }

ResetLocals ==
  /\ raw_frame' = NoFrame
  /\ frame' = NoFrame
  /\ detected' = FALSE
  /\ confidence' = 0
  /\ boxes' = << >>
  /\ inference_slow' = FALSE
  /\ branch' = "none"

----------------------------------------------------------------------------
(* The capture thread: CameraStream._update *)

\* "while self.is_running: if self.cap and self.cap.isOpened(): ..." on the
\* camera the controller reads from
CamWrite ==
  /\ cams[camera].thread /\ cams[camera].cap
  /\ current_frame < MaxCapture
  /\ current_frame' = current_frame + 1
  /\ last' = NoLast
  /\ emitted' = << >>
  /\ UNCHANGED << now, config, monitoring_active, protection_mode, lockoutVars,
                  censorVars, pc, localVars, vcam_out, log, hist, matched_ids, preview_out, lifeVars >>

----------------------------------------------------------------------------
(* One cycle of run() *)

\* "with self.camera.lock: raw_frame = self.camera.current_frame.copy() ..."
ReadRawFrame(p) ==
  /\ pc = p
  /\ now < MaxNow
  /\ raw_frame' = LiveFrame(current_frame)
  /\ vcam_out' = NoFrame
  /\ pc' = "dispatch"
  /\ last' = NoLast
  /\ emitted' = << >>
  /\ UNCHANGED << now, config, current_frame, monitoring_active, protection_mode,
                  lockoutVars, censorVars, frame, detected, confidence, boxes,
                  inference_slow, branch, log, hist, matched_ids, preview_out, lifeVars >>

RunTop == ReadRawFrame("top")

\* which branch of the cycle runs: the paused preview, nothing (camera.read()
\* gave None), or the pipeline of the protection mode
PipelineOf(mon, cf, mode) ==
  IF ~mon THEN "paused" ELSE IF cf = 0 THEN "noframe" ELSE mode

\* variant: the paused preview is the raw frame without the marking
PreviewOfUnmarked(b, raw, f) ==
  IF b = "paused" THEN raw ELSE IF b = "noframe" THEN NoFrame ELSE f

\* frame_ready.emit: the frame just read, or in a paused cycle the marked copy
\* of raw_frame when there is one
PreviewOf(b, raw, f) ==
  IF b = "paused" THEN (IF raw # NoFrame THEN PausedFrame(raw) ELSE NoFrame)
  ELSE IF b = "noframe" THEN NoFrame ELSE f

\* "if self.monitoring_active: frame = self.camera.read() ...", the test of
\* protection_mode and the inference call of the selected pipeline
RunDispatch ==
  /\ pc = "dispatch"
  /\ last' = NoLast
  /\ emitted' = << >>
  /\ branch' = PipelineOf(monitoring_active, current_frame, protection_mode)
  /\ preview_out' = PreviewOf(branch', raw_frame, LiveFrame(current_frame))
  /\ IF branch' \in {"paused", "noframe"}
     THEN /\ pc' = "emit"
          /\ UNCHANGED << frame, detected, confidence, boxes, inference_slow >>
     ELSE IF branch' = "censorship"
     THEN \E r \in EngineDetectWithBoxes(engine.session, config.thr), slow \in BOOLEAN :
            /\ frame' = LiveFrame(current_frame)
            /\ detected' = r.detected
            /\ confidence' = r.confidence
            /\ boxes' = r.boxes
            /\ inference_slow' = slow
            /\ pc' = "cens_update"
     ELSE \E r \in EngineDetect(engine.session) :
            /\ frame' = LiveFrame(current_frame)
            /\ detected' = r[1]
            /\ confidence' = r[2]
            /\ pc' = "shield_eval"
            /\ UNCHANGED << boxes, inference_slow >>
  /\ UNCHANGED << now, config, current_frame, monitoring_active, protection_mode,
                  lockoutVars, censorVars, raw_frame, vcam_out, log, hist, matched_ids,
                  lifeVars >>

\* "self._evaluate_state(detected, confidence); raw_frame = frame"
RunShieldEval ==
  /\ pc = "shield_eval"
  /\ EvaluateState(detected, confidence)
  /\ raw_frame' = frame
  /\ pc' = "shield_block"
  /\ last' = Snapshot("eval", IsHighConfidence(detected, confidence, config.thr))
  /\ UNCHANGED << now, config, current_frame, monitoring_active, protection_mode,
                  censorVars, frame, detected, confidence, boxes, inference_slow,
                  branch, vcam_out, hist, matched_ids, preview_out, lifeVars >>

\* "if self.is_threat_active: ... raw_frame = blocked"
RunShieldBlock ==
  /\ pc = "shield_block"
  /\ raw_frame' = IF is_threat_active THEN BlockedFrame ELSE raw_frame
  /\ pc' = "emit"
  /\ last' = NoLast
  /\ emitted' = << >>
  /\ UNCHANGED << now, config, current_frame, monitoring_active, protection_mode,
                  lockoutVars, censorVars, frame, detected, confidence, boxes,
                  inference_slow, branch, vcam_out, log, hist, matched_ids, preview_out, lifeVars >>

\* variant: the cached frame is reused whenever there is one
UseLastSafeFrameWhenCached(slow, cached) == cached # NoFrame

\* "if inference_ms > 50 and self._last_censored_frame is not None"
UseLastSafeFrame(slow, cached) == slow /\ cached # NoFrame

\* the frame-drop fallback, or the tracker update and the redaction of a fresh frame
RunCensUpdate ==
  /\ pc = "cens_update"
  /\ IF UseLastSafeFrame(inference_slow, last_censored_frame)
     THEN /\ raw_frame' = last_censored_frame
          /\ UNCHANGED censorVars
     ELSE LET upd == UpdateThreats(active_threats, next_threat_id, boxes)
              sanitized == Sanitize(IF raw_frame # NoFrame THEN raw_frame ELSE frame,
                                    upd.mem, now)
          IN /\ active_threats' = upd.mem
             /\ next_threat_id' = upd.next
             /\ last_censored_frame' = sanitized
             /\ raw_frame' = sanitized
  /\ pc' = "cens_log"
  /\ last' = NoLast
  /\ emitted' = << >>
  /\ UNCHANGED << now, config, current_frame, monitoring_active, protection_mode,
                  lockoutVars, frame, detected, confidence, boxes, inference_slow,
                  branch, vcam_out, log, hist, matched_ids, preview_out, lifeVars >>

\* variant: the incident ends at the first frame without a detection
CensorIncidentEndsOnMiss(det, active, mem) == ~det /\ active

\* "else: if self.is_threat_active and len(self._active_threats) == 0"
CensorIncidentEnds(det, active, mem) == ~det /\ active /\ DOMAIN mem = {}

\* "Log if detected (but DON'T trigger the shield)": the Censorship incident flag
RunCensLog ==
  /\ pc = "cens_log"
  /\ IF detected
     THEN /\ is_threat_active' = TRUE
          /\ incident_start_time' = IF ~is_threat_active THEN now ELSE incident_start_time
          /\ max_threat_confidence' =
               IF ~is_threat_active THEN confidence
               ELSE IF confidence > max_threat_confidence THEN confidence
               ELSE max_threat_confidence
          /\ log' = log
     ELSE IF CensorIncidentEnds(detected, is_threat_active, active_threats)
     THEN /\ log' = IF config.log
                    THEN Append(log, LogRow("Cell phone visual intrusion (censored)",
                                            max_threat_confidence,
                                            IncidentDuration(now, incident_start_time)))
                    ELSE log
          /\ is_threat_active' = FALSE
          /\ incident_start_time' = NoTime
          /\ max_threat_confidence' = InitialConfidence
     ELSE UNCHANGED << is_threat_active, incident_start_time, max_threat_confidence, log >>
  /\ pc' = "emit"
  /\ last' = Snapshot("cens_log", FALSE)
  /\ emitted' = << >>
  /\ UNCHANGED << now, config, current_frame, monitoring_active, protection_mode,
                  consecutive_threat_frames, lockout_end_time, censorVars, raw_frame,
                  frame, detected, confidence, boxes, inference_slow, branch, vcam_out, hist, matched_ids, preview_out, lifeVars >>

\* "if vcam is not None and raw_frame is not None: ... vcam.send(rgb_frame)":
\* sent is FALSE when there is no virtual camera or the send raises
VcamSend(f, sent) == IF sent /\ f # NoFrame THEN f ELSE NoFrame

\* the broadcast, then the pacing sleep; the clock has moved on when the next
\* cycle starts
RunEmit ==
  /\ pc = "emit"
  /\ \E sent \in BOOLEAN : vcam_out' = VcamSend(raw_frame, sent)
  /\ \E dt \in CycleTicks : now' = now + dt
  /\ ResetLocals
  /\ preview_out' = NoFrame
  /\ pc' = "top"
  /\ last' = NoLast
  /\ emitted' = << >>
  /\ UNCHANGED << config, current_frame, monitoring_active, protection_mode,
                  lockoutVars, censorVars, log, hist, matched_ids, lifeVars >>

----------------------------------------------------------------------------
(* Operations the Qt main thread calls on the controller *)

\* "Instantly resolve any active threats cleanly": the reset both
\* pause_monitoring and set_protection_mode apply when is_threat_active
ResetIfActive ==
  IF is_threat_active
  THEN /\ is_threat_active' = FALSE
       /\ consecutive_threat_frames' = 0
       /\ incident_start_time' = NoTime
       /\ max_threat_confidence' = InitialConfidence
       /\ lockout_end_time' = InitialLockoutEnd
       /\ emitted' = << << FALSE, 0 >> >>
  ELSE /\ UNCHANGED lockoutVars
       /\ emitted' = << >>

\* LensBlockApp._pause_monitoring / _on_unlock_requested call it only while
\* monitoring_active
PauseMonitoring ==
  /\ monitoring_active
  /\ monitoring_active' = FALSE
  /\ ResetIfActive
  /\ last' = Snapshot("pause", FALSE)
  /\ UNCHANGED << now, config, current_frame, protection_mode, censorVars, pc,
                  localVars, vcam_out, log, hist, matched_ids, preview_out, lifeVars >>

ResumeMonitoring ==
  /\ ~monitoring_active
  /\ monitoring_active' = TRUE
  /\ last' = NoLast
  /\ emitted' = << >>
  /\ UNCHANGED << now, config, current_frame, protection_mode, lockoutVars,
                  censorVars, pc, localVars, vcam_out, log, hist, matched_ids, preview_out, lifeVars >>

SetProtectionMode(mode) ==
  /\ protection_mode' = mode
  /\ ResetIfActive
  /\ active_threats' = << >>
  /\ last_censored_frame' = NoFrame
  /\ last' = Snapshot("set_mode", FALSE)
  /\ UNCHANGED << now, config, current_frame, monitoring_active, next_threat_id, pc,
                  localVars, vcam_out, log, hist, matched_ids, preview_out, lifeVars >>

\* SettingsDashboard: the persistence slider calls config.set while run() is live
\* (logging stays enabled here; SpecEval covers both settings of the checkbox)
SetConfig ==
  /\ \E v \in PersChoices : config' = [config EXCEPT !.pers = v]
  /\ config' # config
  /\ last' = NoLast
  /\ emitted' = << >>
  /\ UNCHANGED << now, current_frame, monitoring_active, protection_mode, lockoutVars,
                  censorVars, pc, localVars, vcam_out, log, hist, matched_ids, preview_out, lifeVars >>

----------------------------------------------------------------------------
(* The controller with its two threads *)

\* a camera whose capture thread runs, and one that is not open (as
\* constructed, after a failed start, after stop)
CamStarted == [thread |-> TRUE, cap |-> TRUE]
CamClosed == [thread |-> FALSE, cap |-> FALSE]

\* the loop of run() is live: nothing pending, stop() not called
LifeIdle ==
  /\ preview_out = NoFrame
  /\ is_running = TRUE
  /\ pending_camera_restart = FALSE
  /\ pending_model_restart = FALSE
  /\ camera = 0
  /\ cams = [i \in {0} |-> CamStarted]
  /\ engine = [id |-> 0, session |-> TRUE]
  /\ stop_call = [pc |-> "idle", cam |-> NoId]
  /\ camera_idx = NoId
  /\ model_path = NoId

Init ==
  /\ now = 1                 \* time.time() is positive at construction
  /\ config \in [thr : ThrChoices, pers : PersChoices, log : {TRUE}, lock : {LockoutTicks}]
  /\ current_frame = 0
  /\ monitoring_active = TRUE
  /\ protection_mode = "shield"
  /\ consecutive_threat_frames = 0
  /\ is_threat_active = FALSE
  /\ incident_start_time = NoTime
  /\ max_threat_confidence = InitialConfidence
  /\ lockout_end_time = InitialLockoutEnd
  /\ active_threats = << >>
  /\ next_threat_id = 0
  /\ last_censored_frame = NoFrame
  /\ pc = "top"
  /\ raw_frame = NoFrame
  /\ frame = NoFrame
  /\ detected = FALSE
  /\ confidence = 0
  /\ boxes = << >>
  /\ inference_slow = FALSE
  /\ branch = "none"
  /\ vcam_out = NoFrame
  /\ log = << >>
  /\ emitted = << >>
  /\ last = NoLast
  /\ hist = << >>
  /\ matched_ids = {}
  /\ LifeIdle

Next ==
  \/ CamWrite
  \/ RunTop
  \/ RunDispatch
  \/ RunShieldEval
  \/ RunShieldBlock
  \/ RunCensUpdate
  \/ RunCensLog
  \/ RunEmit
  \/ PauseMonitoring
  \/ ResumeMonitoring
  \/ \E mode \in {"shield", "censorship"} : SetProtectionMode(mode)
  \/ SetConfig

Spec == Init /\ [][Next]_vars

----------------------------------------------------------------------------
(* _evaluate_state called frame after frame on one thread with fixed     *)
(* settings: hist records each frame fed, the clock value of its call    *)
(* and is_threat_active as the call left it                               *)

EvalInitWith(persistences) ==
  /\ now = 1
  /\ config \in [thr : ThrChoices, pers : persistences, log : BOOLEAN,
                 lock : 1..(LockoutTicks + 1)]
  /\ current_frame = 0
  /\ monitoring_active = TRUE
  /\ protection_mode = "shield"
  /\ consecutive_threat_frames = 0
  /\ is_threat_active = FALSE
  /\ incident_start_time = NoTime
  /\ max_threat_confidence = InitialConfidence
  /\ lockout_end_time = InitialLockoutEnd
  /\ active_threats = << >>
  /\ next_threat_id = 0
  /\ last_censored_frame = NoFrame
  /\ pc = "top"
  /\ raw_frame = NoFrame
  /\ frame = NoFrame
  /\ detected = FALSE
  /\ confidence = 0
  /\ boxes = << >>
  /\ inference_slow = FALSE
  /\ branch = "none"
  /\ vcam_out = NoFrame
  /\ log = << >>
  /\ emitted = << >>
  /\ last = NoLast
  /\ hist = << >>
  /\ matched_ids = {}
  /\ LifeIdle

EvalInit == EvalInitWith(1..MaxPersistence)

\* the clock is read once per call; one tick passes between two calls
FeedFrame ==
  /\ Len(hist) < MaxFrames
  /\ \E r \in DetectResults :
       /\ EvaluateState(r[1], r[2])
       /\ hist' = Append(hist, [d |-> r[1], c |-> r[2], at |-> now,
                                 active |-> is_threat_active'])
       /\ last' = Snapshot("eval", IsHighConfidence(r[1], r[2], config.thr))
  /\ now' = now + 1
  /\ UNCHANGED << config, current_frame, monitoring_active, protection_mode,
                  censorVars, pc, localVars, vcam_out, matched_ids, preview_out, lifeVars >>

EvalNext == FeedFrame

SpecEval == EvalInit /\ [][EvalNext]_vars

----------------------------------------------------------------------------
(* Claims about _evaluate_state fed frame after frame (SpecEval) *)

\* frame i of hist is a qualifying one: detected, with confidence >= threshold
HistQualifies(i) == hist[i].d /\ hist[i].c >= config.thr

\* some run of persistence_frames consecutive qualifying frames ends at or before frame k
HistRunCompletedBy(k) ==
  \E i \in config.pers..k : \A j \in (i - config.pers + 1)..i : HistQualifies(j)

HistConfs == [ i \in 1..Len(hist) |-> IF hist[i].d THEN hist[i].c ELSE 0 ]

\* C1: from Armed with the counter at 0 and fixed settings, Lockdown is entered on
\* exactly the frame that completes persistence_frames consecutive qualifying
\* frames and on no earlier frame (so persistence_frames - 1 qualifying frames and
\* then a non-qualifying one leave it Armed); with threshold 60 and persistence 3
\* the confidences 70,70,70 enter on frame 3 and 70,30,70,70,70 on frame 5.
C1_EntersOnCompletingFrame ==
  LET n == Len(hist)
  IN /\ ~HistRunCompletedBy(n) => ~is_threat_active
     /\ (n >= 1 /\ HistRunCompletedBy(n) /\ ~HistRunCompletedBy(n - 1))
          => (is_threat_active /\ incident_start_time = hist[n].at)
     /\ (config.thr = 60 /\ config.pers = 3) =>
          /\ HistConfs = << 70, 70, 70 >> => (is_threat_active /\ incident_start_time = hist[3].at)
          /\ HistConfs \in { << 70 >>, << 70, 70 >>, << 70, 30 >>, << 70, 30, 70 >>,
                             << 70, 30, 70, 70 >> } => ~is_threat_active
          /\ HistConfs = << 70, 30, 70, 70, 70 >>
               => (is_threat_active /\ incident_start_time = hist[5].at)

\* C1 witness: 70,30,70,70,70 has been fed with threshold 60 and persistence 3,
\* and the fifth frame entered Lockdown
C1_Witness ==
  /\ config.thr = 60 /\ config.pers = 3
  /\ HistConfs = << 70, 30, 70, 70, 70 >>
  /\ ~hist[4].active /\ hist[5].active /\ is_threat_active

\* the frames at which a call left Lockdown
HistExits == { i \in 2..Len(hist) : hist[i - 1].active /\ ~hist[i].active }

\* the frame whose call entered the Lockdown that is active after frame k
HistEntryBefore(k) ==
  CHOOSE e \in 1..k :
    /\ hist[e].active /\ (e = 1 \/ ~hist[e - 1].active)
    /\ \A j \in e..k : hist[j].active

SetMax(S) == IF S = {} THEN 0 ELSE CHOOSE x \in S : \A y \in S : y <= x

\* C5: leaving Lockdown writes exactly one audit record (logging enabled); its
\* duration is exit time - entry time and its confidence is the maximum over the
\* frames of that incident only, i.e. from the first frame of the qualifying run
\* that entered Lockdown up to the exit.
C5_ExitRecordOfIncident ==
  LET n == Len(hist)
  IN (n \in HistExits /\ config.log) =>
       LET e == HistEntryBefore(n - 1)
           incident == (e - config.pers + 1)..n
           peak == SetMax({ hist[j].c : j \in { k \in incident : HistQualifies(k) } })
       IN /\ Len(log) = Cardinality(HistExits)
          /\ log[Len(log)].dur = hist[n].at - hist[e].at
          /\ log[Len(log)].conf = peak

----------------------------------------------------------------------------
(* Claims about the controller with its two threads (Spec) *)

\* a step of run() that is the call of _evaluate_state
EvalStep == pc = "shield_eval" /\ pc' = "shield_block"

\* the frame handed to that call is a qualifying one
EvalQualifies == detected /\ confidence >= config.thr

\* C2 as stated: no step changes is_threat_active from True to False at a time
\* earlier than lockout_end_time.
C2_NoStepExitsBeforeLockoutEnd ==
  [][ (is_threat_active /\ ~is_threat_active') => ~(now < lockout_end_time) ]_vars

\* C2 amended: no call of _evaluate_state changes is_threat_active from True to
\* False while now <= lockout_end_time, whatever the detections (pause_monitoring
\* and set_protection_mode end Lockdown at any time).
C2_EvaluateNeverExitsEarly ==
  [][ (EvalStep /\ is_threat_active /\ ~is_threat_active') => now > lockout_end_time ]_vars

\* C2 witness: a call of _evaluate_state has just left Lockdown
C2_Witness ==
  /\ last.act = "eval" /\ last.active /\ ~is_threat_active
  /\ lockout_end_time = InitialLockoutEnd /\ now > last.lockEnd

\* C3: _evaluate_state goes from Lockdown to Armed only in a call where
\* now > lockout_end_time and the counter is 0 after the frame's update; a frame
\* that does not qualify zeroes the counter in that call, and while
\* now <= lockout_end_time it leaves is_threat_active True.
C3_ExitNeedsTimerAndAbsence ==
  [][ EvalStep =>
        /\ (is_threat_active /\ ~is_threat_active')
             => (now > lockout_end_time /\ consecutive_threat_frames' = 0)
        /\ ~EvalQualifies => consecutive_threat_frames' = 0
        /\ (~EvalQualifies /\ is_threat_active /\ now <= lockout_end_time)
             => is_threat_active' ]_vars

\* C3 witness: a non-qualifying frame arrived in Lockdown before the timer had
\* elapsed; the counter is 0 and Lockdown is still active
C3_Witness ==
  /\ last.act = "eval" /\ last.active /\ ~last.qual
  /\ now <= last.lockEnd
  /\ is_threat_active /\ consecutive_threat_frames = 0

\* C4 as stated: in a call of _evaluate_state made in Lockdown a qualifying frame
\* sets lockout_end_time = now + lockout_duration, strictly later than before,
\* and a non-qualifying frame leaves lockout_end_time unchanged.
C4_NonQualifyingKeepsExpiry ==
  [][ (EvalStep /\ is_threat_active) =>
        /\ EvalQualifies =>
             /\ lockout_end_time' = now + config.lock
             /\ lockout_end_time' > lockout_end_time
        /\ ~EvalQualifies => lockout_end_time' = lockout_end_time ]_vars

\* C4 amended: in a call of _evaluate_state made in Lockdown a qualifying frame
\* keeps Lockdown and sets lockout_end_time = now + lockout_duration, strictly
\* later than before, and a non-qualifying frame leaves lockout_end_time
\* unchanged (the call that leaves Lockdown resets it to 0.0 instead).
C4_SlidingExpiry ==
  [][ (EvalStep /\ is_threat_active) =>
        /\ EvalQualifies =>
             /\ is_threat_active'
             /\ lockout_end_time' = now + config.lock
             /\ lockout_end_time' > lockout_end_time
        /\ ~EvalQualifies =>
             \/ is_threat_active' /\ lockout_end_time' = lockout_end_time
             \/ ~is_threat_active' /\ lockout_end_time' = InitialLockoutEnd ]_vars

\* C4 witness: a qualifying frame arrived in Lockdown and moved the expiry forward
C4_Witness ==
  /\ last.act = "eval" /\ last.active /\ last.qual
  /\ last.lockEnd > InitialLockoutEnd
  /\ is_threat_active /\ lockout_end_time > last.lockEnd

\* C6: while the override is active (monitoring suspended by pause_monitoring;
\* the code has no override_until, the suspension lasts until resume_monitoring)
\* no step of run() changes the consecutive counter, is_threat_active,
\* lockout_end_time or the max confidence, notifies anything or writes an audit
\* record, whatever the frames are.
C6_OverrideSkipsEvaluation ==
  [][ (~monitoring_active /\ pc' # pc) =>
        /\ UNCHANGED << consecutive_threat_frames, is_threat_active, lockout_end_time,
                        max_threat_confidence, log >>
        /\ emitted' = << >> ]_vars

\* C7: a manual override (pause_monitoring) requested while Lockdown is active
\* writes an audit record labelled as overridden for the incident.
C7_OverrideLogsIncident ==
  [][ (monitoring_active /\ ~monitoring_active' /\ is_threat_active) =>
        /\ Len(log') = Len(log) + 1
        /\ log'[Len(log')].type = "Cell phone visual intrusion (overridden)" ]_vars

\* C8: after set_protection_mode the threat memory and the last-safe-frame cache
\* are empty and every lockout/incident field has its initial value, also when
\* Lockdown was not active at the switch.
C8_ModeSwitchResetsEverything ==
  last.act = "set_mode" =>
    /\ active_threats = << >>
    /\ last_censored_frame = NoFrame
    /\ consecutive_threat_frames = 0
    /\ ~is_threat_active
    /\ incident_start_time = NoTime
    /\ max_threat_confidence = InitialConfidence
    /\ lockout_end_time = InitialLockoutEnd

\* C9: once a mode switch and the cycle it interleaved with have both finished,
\* nothing computed under the old mode is left: in Shield mode no region and no
\* last-safe frame, in Censorship mode no running lockout timer.
C9_NoStaleStateAfterSwitch ==
  pc = "top" =>
    /\ protection_mode = "shield"
         => (active_threats = << >> /\ last_censored_frame = NoFrame)
    /\ protection_mode = "censorship" => lockout_end_time = InitialLockoutEnd

\* every region of the threat memory with a non-empty padded box is blurred in f
AllRegionsBlurred(f) ==
  \A t \in DOMAIN active_threats :
    RoiNonEmpty(PadBox(active_threats[t].box, FrameW, FrameH))
      => PadBox(active_threats[t].box, FrameW, FrameH) \in f.blur

\* C10 as stated: in a Censorship cycle whose inference was slow the frame for
\* the virtual camera is the cached one, redacted in an earlier cycle, not the
\* fresh one; and every frame sent has every region of the memory blurred.
C10_SlowCycleSendsCachedFrame ==
  /\ (pc = "cens_log" /\ inference_slow)
       => (raw_frame.tag = "sanitized" /\ raw_frame.at < now)
  /\ (pc = "emit" /\ branch = "censorship" /\ raw_frame # NoFrame)
       => (raw_frame.tag = "sanitized" /\ AllRegionsBlurred(raw_frame))

\* C10 amended: a slow Censorship cycle sends the cached frame when there is one;
\* with an empty cache (first cycle after start or after a mode switch), as in a
\* fast cycle, it updates the memory and sends the frame it redacts in this
\* cycle, which becomes the cache; the frame sent in a Censorship cycle always
\* has every region of the current threat memory blurred.
C10_BlockFirst ==
  [][ /\ (pc = "cens_update" /\ pc' = "cens_log") =>
           IF inference_slow /\ last_censored_frame # NoFrame
           THEN /\ raw_frame' = last_censored_frame
                /\ raw_frame'.at < now
                /\ UNCHANGED censorVars
           ELSE /\ raw_frame'.tag = "sanitized" /\ raw_frame'.at = now
                /\ last_censored_frame' = raw_frame'
      /\ (pc = "emit" /\ pc' = "top" /\ branch = "censorship" /\ vcam_out' # NoFrame)
           => /\ vcam_out' = raw_frame
              /\ vcam_out'.tag = "sanitized"
              /\ AllRegionsBlurred(vcam_out') ]_vars

\* C10 witness: a slow Censorship cycle is about to send the frame cached by an
\* earlier cycle, which has the tracked region blurred
C10_Witness ==
  /\ pc = "emit" /\ branch = "censorship" /\ inference_slow
  /\ raw_frame.tag = "sanitized" /\ raw_frame.at < now
  /\ raw_frame = last_censored_frame
  /\ DOMAIN active_threats # {}
  /\ raw_frame.blur # {}

\* C11: in Shield mode, whenever Lockdown is active (is_threat_active) at the
\* broadcast of a cycle, the frame given to the virtual camera is not a live
\* camera frame (the claim asks for more: that it is the blocked frame).
C11_LockdownNeverSendsLiveFrame ==
  [][ (pc = "emit" /\ pc' = "top" /\ protection_mode = "shield" /\ is_threat_active
         /\ vcam_out' # NoFrame)
        => vcam_out'.tag # "live" ]_vars

----------------------------------------------------------------------------
(* The tracking loop of run() taken step by step on one thread: a frame's *)
(* candidate boxes are matched one after the other, then the unmatched    *)
(* regions age. now counts the frames; hist maps every region ever seen   *)
(* to the number of consecutive frames that ended without a match for it  *)
(* (frozen when the region is deleted); last describes the match just     *)
(* made.                                                                  *)

MaxTrackFrames == 13    \* frames the tracking harness processes
MaxDetections == 2      \* candidate boxes in one frame

\* an object, a second one beside it, and two positions between them
TrackBoxChoices == { <<0, 0, 100, 100>>, <<70, 0, 170, 100>>,
                     <<50, 0, 150, 100>>, <<25, 0, 125, 100>> }

TrackBoxLists ==
  UNION { [1..n -> TrackBoxChoices] : n \in 0..MaxDetections }

\* IoU of box with the stored box of region t exceeds 0.3
OverThreshold(box, t) ==
  FracGreater(ComputeIou(box, active_threats[t].box), << 3, 10 >>)

\* the regions no other region beats on IoU with box
TopRegions(box) ==
  { t \in DOMAIN active_threats :
      \A u \in DOMAIN active_threats :
        ~FracGreater(ComputeIou(box, active_threats[u].box),
                     ComputeIou(box, active_threats[t].box)) }

FirstInserted(S) == CHOOSE t \in S : \A u \in S : t <= u

TrackInit ==
  /\ now = 0
  /\ config \in [thr : ThrChoices, pers : {1}, log : {TRUE}, lock : {LockoutTicks}]
  /\ current_frame = 0
  /\ monitoring_active = TRUE
  /\ protection_mode = "censorship"
  /\ consecutive_threat_frames = 0
  /\ is_threat_active = FALSE
  /\ incident_start_time = NoTime
  /\ max_threat_confidence = InitialConfidence
  /\ lockout_end_time = InitialLockoutEnd
  /\ active_threats = << >>
  /\ next_threat_id = 0
  /\ last_censored_frame = NoFrame
  /\ pc = "track_frame"
  /\ raw_frame = NoFrame
  /\ frame = NoFrame
  /\ detected = FALSE
  /\ confidence = 0
  /\ boxes = << >>
  /\ inference_slow = FALSE
  /\ branch = "censorship"
  /\ vcam_out = NoFrame
  /\ log = << >>
  /\ emitted = << >>
  /\ last = [act |-> "none", id |-> NoId, tied |-> FALSE]
  /\ hist = << >>
  /\ matched_ids = {}
  /\ LifeIdle

trackFixed == << config, current_frame, monitoring_active, protection_mode, lockoutVars,
                 last_censored_frame, raw_frame, frame, detected, confidence,
                 inference_slow, branch, vcam_out, log, emitted, preview_out, lifeVars >>

\* "matched_ids = set()" and the boxes of the frame
TrackFrame ==
  /\ pc = "track_frame"
  /\ now < MaxTrackFrames
  /\ \E bs \in TrackBoxLists : boxes' = bs
  /\ matched_ids' = {}
  /\ pc' = "track_box"
  /\ last' = [act |-> "frame", id |-> NoId, tied |-> FALSE]
  /\ UNCHANGED << now, active_threats, next_threat_id, hist, trackFixed >>

\* one iteration of "for box in boxes"
TrackOne ==
  /\ pc = "track_box"
  /\ boxes # << >>
  /\ LET st == TrackBox([mem |-> active_threats, next |-> next_threat_id,
                         matched |-> matched_ids], Head(boxes))
         top == TopRegions(Head(boxes))
     IN /\ active_threats' = st.mem
        /\ next_threat_id' = st.next
        /\ matched_ids' = st.matched
        /\ last' = IF st.next = next_threat_id
                   THEN [act |-> "match",
                         id |-> BestMatch(Head(boxes), active_threats,
                                          SortedIds(DOMAIN active_threats),
                                          << << 0, 1 >>, NoId >>)[2],
                         tied |-> Cardinality(top) > 1]
                   ELSE [act |-> "new", id |-> next_threat_id, tied |-> FALSE]
  /\ boxes' = Tail(boxes)
  /\ UNCHANGED << now, pc, hist, trackFixed >>

\* "Age unmatched threats", the deletion of the expired ones, end of the frame
TrackAge ==
  /\ pc = "track_box"
  /\ boxes = << >>
  /\ active_threats' = AgeThreats(active_threats, matched_ids)
  /\ hist' = [ t \in DOMAIN hist \cup DOMAIN active_threats |->
                 IF t \notin DOMAIN active_threats THEN hist[t]
                 ELSE IF t \in matched_ids THEN 0 ELSE hist[t] + 1 ]
  /\ now' = now + 1
  /\ pc' = "track_frame"
  /\ last' = [act |-> "age", id |-> NoId, tied |-> FALSE]
  /\ UNCHANGED << next_threat_id, boxes, matched_ids, trackFixed >>

TrackNext == TrackFrame \/ TrackOne \/ TrackAge

SpecTrack == TrackInit /\ [][TrackNext]_vars

\* C12: a region matched by no detection in 11 consecutive tracking steps is
\* deleted at the 11th of them; up to and including the 10th it is present.
C12_EvictedAtEleventhMiss ==
  [][ (pc = "track_box" /\ pc' = "track_frame") =>
        \A t \in DOMAIN active_threats :
          LET misses == IF t \in matched_ids THEN 0 ELSE hist[t] + 1
          IN /\ misses <= 10 => t \in DOMAIN active_threats'
             /\ misses >= 11 => t \notin DOMAIN active_threats' ]_vars

\* C12 witness: a region has just been deleted, after 11 frames without a match
C12_Witness ==
  /\ last.act = "age"
  /\ \E t \in DOMAIN hist : hist[t] = 11 /\ t \notin DOMAIN active_threats

\* a step of the tracking loop that handles one candidate box
TrackStep == pc = "track_box" /\ boxes # << >> /\ boxes' = Tail(boxes)

\* C13: a detection whose best IoU against the existing regions exceeds 0.3
\* replaces the stored box of one of them with its own box, resets that
\* region's cooldown to 0 and creates no region; a detection whose best IoU is
\* at most 0.3 creates exactly one region, with the next id and cooldown 0, and
\* touches no other.
C13_MatchUpdatesElseCreates ==
  [][ TrackStep =>
        LET box == Head(boxes)
            ids == DOMAIN active_threats
        IN IF \E t \in ids : OverThreshold(box, t)
           THEN /\ DOMAIN active_threats' = ids
                /\ next_threat_id' = next_threat_id
                /\ \E t \in ids :
                     /\ OverThreshold(box, t)
                     /\ active_threats' =
                          [ active_threats EXCEPT ![t] = [box |-> box, cooldown |-> 0] ]
           ELSE /\ next_threat_id \notin ids
                /\ DOMAIN active_threats' = ids \cup {next_threat_id}
                /\ active_threats'[next_threat_id] = [box |-> box, cooldown |-> 0]
                /\ \A t \in ids : active_threats'[t] = active_threats[t]
                /\ next_threat_id' = next_threat_id + 1 ]_vars

\* C13 witness: a detection has just been matched to a region that had aged, in
\* a memory of two regions, and the region holds the detection's box
C13_Witness ==
  /\ last.act = "match"
  /\ Cardinality(DOMAIN active_threats) = 2
  /\ last.id \in DOMAIN hist /\ hist[last.id] > 0
  /\ active_threats[last.id].cooldown = 0
  /\ next_threat_id = 2

\* C14: the region a detection is matched to is the one with the highest IoU
\* among all regions, the first inserted one when several share the highest
\* IoU; its box becomes the detection's own box, so after the frame it is the
\* box of the last detection matched to it (aging changes no box).
C14_BestIouFirstInsertedWins ==
  [][ /\ (TrackStep /\ \E t \in DOMAIN active_threats : OverThreshold(Head(boxes), t)) =>
           LET winner == FirstInserted(TopRegions(Head(boxes)))
           IN /\ active_threats'[winner].box = Head(boxes)
              /\ winner \in matched_ids'
              /\ \A t \in DOMAIN active_threats \ {winner} :
                   active_threats'[t] = active_threats[t]
      /\ (pc = "track_box" /\ pc' = "track_frame") =>
           \A t \in DOMAIN active_threats' : active_threats'[t].box = active_threats[t].box
    ]_vars

\* C14 witness: two regions had the same highest IoU with the detection just
\* handled, and the older one took it
C14_Witness ==
  /\ last.act = "match" /\ last.tied
  /\ \E u \in DOMAIN active_threats : u > last.id
  /\ active_threats[last.id].cooldown = 0

----------------------------------------------------------------------------
(* _compute_iou and the ROI padding applied to boxes as decoding produces *)
(* them: integer corners clamped to the 640x480 frame, x1 <= x2 and       *)
(* y1 <= y2, zero width or height included. boxes holds the pair of       *)
(* operands, hist the results.                                            *)

GeomXs == {0, 100, 150, 200, 640}
GeomYs == {0, 100, 200, 480}

GeomBoxes ==
  { b \in { << x1, y1, x2, y2 >> : x1 \in GeomXs, y1 \in GeomYs,
                                   x2 \in GeomXs, y2 \in GeomYs } :
      b[1] <= b[3] /\ b[2] <= b[4] }

GeomInit ==
  /\ now = 0
  /\ config \in [thr : ThrChoices, pers : {1}, log : {TRUE}, lock : {LockoutTicks}]
  /\ current_frame = 0
  /\ monitoring_active = TRUE
  /\ protection_mode = "censorship"
  /\ consecutive_threat_frames = 0
  /\ is_threat_active = FALSE
  /\ incident_start_time = NoTime
  /\ max_threat_confidence = InitialConfidence
  /\ lockout_end_time = InitialLockoutEnd
  /\ active_threats = << >>
  /\ next_threat_id = 0
  /\ last_censored_frame = NoFrame
  /\ pc = "geom"
  /\ raw_frame = NoFrame
  /\ frame = NoFrame
  /\ detected = FALSE
  /\ confidence = 0
  /\ \E a \in GeomBoxes, b \in GeomBoxes : boxes = << a, b >>
  /\ inference_slow = FALSE
  /\ branch = "none"
  /\ vcam_out = NoFrame
  /\ log = << >>
  /\ emitted = << >>
  /\ last = NoLast
  /\ hist = << >>
  /\ matched_ids = {}
  /\ LifeIdle

geomFixed == << now, config, current_frame, monitoring_active, protection_mode,
                lockoutVars, censorVars, localVars, vcam_out, log, emitted, last,
                matched_ids, preview_out, lifeVars >>

\* _compute_iou on the pair, both ways round, and on the first box with itself
ApplyIou ==
  /\ pc = "geom"
  /\ hist' = [ ab |-> ComputeIou(boxes[1], boxes[2]),
               ba |-> ComputeIou(boxes[2], boxes[1]),
               aa |-> ComputeIou(boxes[1], boxes[1]) ]
  /\ pc' = "geom_iou"
  /\ UNCHANGED geomFixed

\* the padding of the first box in the frame
ApplyPad ==
  /\ pc = "geom"
  /\ hist' = [ pad |-> PadBox(boxes[1], FrameW, FrameH) ]
  /\ pc' = "geom_pad"
  /\ UNCHANGED geomFixed

GeomNext == ApplyIou \/ ApplyPad

SpecGeom == GeomInit /\ [][GeomNext]_vars

\* the two boxes share no area
Disjoint(a, b) == a[3] <= b[1] \/ b[3] <= a[1] \/ a[4] <= b[2] \/ b[4] <= a[2]

\* C15: for every box decoding can produce, zero-area ones included, the IoU of
\* a box with itself is 1.0, the IoU of two disjoint boxes is 0.0, and
\* IoU(a, b) = IoU(b, a).
C15_IouLaws ==
  pc = "geom_iou" =>
    /\ hist.aa[1] = hist.aa[2]
    /\ Disjoint(boxes[1], boxes[2]) => hist.ab[1] = 0
    /\ hist.ab = hist.ba

\* C16 as stated: the box (100,100,200,200) padded by 20% in the 640x480 frame
\* is (90,90,210,210).
C16_PadExampleAsStated ==
  (pc = "geom_pad" /\ boxes[1] = << 100, 100, 200, 200 >>)
    => hist.pad = << 90, 90, 210, 210 >>

\* C16 amended: the padding moves each side outward by 20% of the box's width
\* (left, right) or height (top, bottom), rounded down, and clamps the result
\* to the frame; (100,100,200,200) becomes (80,80,220,220).
C16_PadByFifthEachSide ==
  pc = "geom_pad" =>
    LET b == boxes[1]
        padX == (b[3] - b[1]) \div 5
        padY == (b[4] - b[2]) \div 5
    IN /\ hist.pad[1] = (IF b[1] - padX < 0 THEN 0 ELSE b[1] - padX)
       /\ hist.pad[2] = (IF b[2] - padY < 0 THEN 0 ELSE b[2] - padY)
       /\ hist.pad[3] = (IF b[3] + padX > 640 THEN 640 ELSE b[3] + padX)
       /\ hist.pad[4] = (IF b[4] + padY > 480 THEN 480 ELSE b[4] + padY)
       /\ b = << 100, 100, 200, 200 >> => hist.pad = << 80, 80, 220, 220 >>

\* C16 witness: (100,100,200,200) has been padded to (80,80,220,220)
C16_Witness ==
  /\ pc = "geom_pad"
  /\ boxes[1] = << 100, 100, 200, 200 >>
  /\ hist.pad = << 80, 80, 220, 220 >>

----------------------------------------------------------------------------
(* More claims about _evaluate_state fed frame after frame (SpecEval) *)

\* C17: the call of _evaluate_state that leaves Lockdown (through the timer)
\* writes one forensic record when logging is enabled and none when it is
\* disabled, then has is_threat_active False, incident_start_time None, max
\* confidence 0.0 and lockout_end_time 0.0, and the last notification it emits
\* is threat_detected(False, 0).
C17_TimerExitClearsIncident ==
  [][ (is_threat_active /\ ~is_threat_active') =>
        /\ now > lockout_end_time
        /\ IF config.log
           THEN log' = Append(log, [type |-> "Cell phone visual intrusion",
                                    conf |-> max_threat_confidence,
                                    dur |-> now - incident_start_time])
           ELSE log' = log
        /\ incident_start_time' = NoTime
        /\ max_threat_confidence' = 0
        /\ lockout_end_time' = 0
        /\ emitted' # << >>
        /\ emitted'[Len(emitted')] = << FALSE, 0 >> ]_vars

\* C17 witness: with logging disabled a call has just left Lockdown and the
\* audit log is still empty
C17_Witness ==
  /\ last.act = "eval" /\ last.active /\ ~is_threat_active
  /\ ~config.log /\ log = << >>
  /\ emitted = << << FALSE, 0 >> >>

\* C18: every call of _evaluate_state that ends with Lockdown active emits, as
\* its last notification, threat_detected(True, r) with
\* r = max(0, lockout_end_time - now) in whole seconds; r is never negative,
\* whether or not the call made a transition.
C18_LockdownAlwaysNotifiesRemaining ==
  [][ is_threat_active' =>
        LET left == lockout_end_time' - now
            r == IF left > 0 THEN left ELSE 0
        IN /\ emitted' # << >>
           /\ emitted'[Len(emitted')] = << TRUE, r >>
           /\ \A i \in 1..Len(emitted') : emitted'[i][2] >= 0 ]_vars

\* C18 witness: a non-qualifying frame arrived in Lockdown before the timer
\* elapsed; no transition happened and the remaining time was notified
C18_Witness ==
  /\ last.act = "eval" /\ last.active /\ ~last.qual
  /\ is_threat_active /\ lockout_end_time = last.lockEnd
  /\ emitted = << << TRUE, lockout_end_time - (now - 1) >> >>

----------------------------------------------------------------------------
(* More claims about the controller with its two threads (Spec) *)

\* the step of a Censorship cycle that maintains the incident flag
CensLogStep == pc = "cens_log" /\ pc' = "emit"

\* C19: in a Censorship cycle the incident flag becomes true when the cycle has
\* a detection; it becomes false in the first cycle without a detection that
\* finds the threat memory empty, and exactly there one audit record is written
\* (logging enabled); no other step of a Censorship cycle writes a record or
\* moves the flag.
C19_CensorIncidentFlag ==
  [][ /\ CensLogStep =>
           /\ detected => (is_threat_active' /\ log' = log)
           /\ (~detected /\ DOMAIN active_threats = {}) =>
                /\ ~is_threat_active'
                /\ IF is_threat_active /\ config.log
                   THEN /\ Len(log') = Len(log) + 1
                        /\ SubSeq(log', 1, Len(log)) = log
                        /\ log'[Len(log')].type = "Cell phone visual intrusion (censored)"
                   ELSE log' = log
           /\ (~detected /\ DOMAIN active_threats # {}) =>
                (is_threat_active' = is_threat_active /\ log' = log)
      /\ (pc' # pc /\ ~CensLogStep /\ (branch = "censorship" \/ branch' = "censorship")) =>
           (log' = log /\ is_threat_active' = is_threat_active) ]_vars

\* C19 witness: the flag was true, a cycle without a detection found the memory
\* empty, and the one audit record has been written
C19_Witness ==
  /\ last.act = "cens_log" /\ last.active /\ ~is_threat_active
  /\ ~detected /\ DOMAIN active_threats = {}
  /\ Len(log) = 1
  /\ log[1].type = "Cell phone visual intrusion (censored)"

\* C20: while the protection mode is Censorship no step of the controller emits
\* threat_detected(True, n) or changes lockout_end_time or the consecutive
\* counter, also when a mode switch interleaves with a Shield evaluation.
C20_CensorshipNeverDrivesLockout ==
  [][ (protection_mode = "censorship" /\ protection_mode' = "censorship") =>
        /\ \A i \in 1..Len(emitted') : ~emitted'[i][1]
        /\ UNCHANGED << lockout_end_time, consecutive_threat_frames >> ]_vars


----------------------------------------------------------------------------
(* Claims about the paused cycle of run() (Spec) *)

\* C21 (as stated): in a cycle that finds monitoring disabled and has a frame,
\* the frame given to the virtual camera is the very frame given to the
\* preview, the synthesized "paused" frame.
C21_PausedFrameToBothSinks ==
  [][ (pc = "emit" /\ branch = "paused" /\ raw_frame # NoFrame /\ vcam_out' # NoFrame)
        => vcam_out' = preview_out ]_vars

\* C21 (amended): a cycle that finds monitoring disabled and has a frame gives
\* the preview a copy of the raw frame marked "AI PAUSED" and gives the virtual
\* camera the raw frame itself, unmarked; run() calls neither the detector nor
\* _evaluate_state in that cycle and writes no lockout or tracker field.
C21_PausedCycleSinks ==
  [][ /\ (pc = "dispatch" /\ pc' = "emit" /\ branch' = "paused")
         => /\ preview_out' = IF raw_frame # NoFrame THEN PausedFrame(raw_frame)
                              ELSE NoFrame
            /\ raw_frame # NoFrame => preview_out' # raw_frame
            /\ UNCHANGED << frame, detected, confidence, boxes, raw_frame >>
            /\ UNCHANGED << lockoutVars, censorVars, log >>
      /\ (pc = "emit" /\ pc' = "top" /\ branch = "paused")
         => /\ frame = NoFrame /\ ~detected /\ boxes = << >>
            /\ raw_frame.tag \in {"live", "none"}
            /\ vcam_out' \in {raw_frame, NoFrame}
            /\ UNCHANGED << lockoutVars, censorVars, log >> ]_vars

C21_Witness ==
  /\ pc = "emit" /\ branch = "paused"
  /\ raw_frame.tag = "live"
  /\ preview_out = PausedFrame(raw_frame)


----------------------------------------------------------------------------
(* Claims about the frames a cycle of run() works on (Spec) *)

\* C28: the consecutive-frame counter advances at most once per distinct
\* captured frame: when an evaluation enters Lockdown, the counter that
\* completed the persistence requirement does not exceed the number of frames
\* the capture thread has delivered, so evaluating one captured frame again
\* does not by itself enter Lockdown.
C28_CounterAdvancesOncePerCapture ==
  [][ ( /\ pc = "shield_eval" /\ pc' = "shield_block"
        /\ ~is_threat_active /\ is_threat_active' )
      => consecutive_threat_frames' <= current_frame ]_vars

\* C29: in a Censorship cycle that redacts a fresh frame, the image the blur is
\* written into (and that goes to the virtual camera) shows the same capture as
\* the frame the detector ran on, whatever the capture thread does between the
\* two reads of the slot.
C29_RedactedFrameIsDetectedFrame ==
  [][ ( /\ pc = "cens_update" /\ pc' = "cens_log"
        /\ ~UseLastSafeFrame(inference_slow, last_censored_frame)
        /\ boxes # << >> )
      => raw_frame'.cap = frame.cap ]_vars

----------------------------------------------------------------------------
(* Claim about the boxes of one frame in the tracking loop (SpecTrack) *)

\* C30: every candidate box of a frame is the stored box of some region once
\* the frame's boxes have been tracked: the box stored for one detection is
\* still stored after the next detection of the same frame has been tracked.
C30_EveryDetectionKeepsItsBox ==
  [][ ( /\ pc = "track_box" /\ boxes # << >>
        /\ last.act \in {"match", "new"} )
      => \E t \in DOMAIN active_threats' :
           active_threats'[t].box = active_threats[last.id].box ]_vars


----------------------------------------------------------------------------
(* The life of run(): start, the while loop with the deferred restarts,    *)
(* and stop() called from the UI thread.  The UI thread is busy inside     *)
(* stop() until it returns, so no other UI call runs meanwhile.            *)

MaxRestarts == 1        \* camera restarts and engine restarts requested
MaxLifeNow == 2         \* run() starts a cycle while now < MaxLifeNow

\* get_settings when the configuration could not be read: load_config
\* returns {} and every get falls back to its default
DefaultSettings == [thr |-> 60, pers |-> 3, log |-> TRUE, lock |-> 10]

LifeInit ==
  /\ now = 1
  /\ config = DefaultSettings
  /\ current_frame = 0
  /\ monitoring_active = TRUE
  /\ protection_mode = "shield"
  /\ consecutive_threat_frames = 0
  /\ is_threat_active = FALSE
  /\ incident_start_time = NoTime
  /\ max_threat_confidence = InitialConfidence
  /\ lockout_end_time = InitialLockoutEnd
  /\ active_threats = << >>
  /\ next_threat_id = 0
  /\ last_censored_frame = NoFrame
  /\ pc = "start"
  /\ raw_frame = NoFrame
  /\ frame = NoFrame
  /\ detected = FALSE
  /\ confidence = 0
  /\ boxes = << >>
  /\ inference_slow = FALSE
  /\ branch = "none"
  /\ vcam_out = NoFrame
  /\ log = << >>
  /\ emitted = << >>
  /\ last = NoLast
  /\ hist = << >>
  /\ matched_ids = {}
  /\ preview_out = NoFrame
  /\ is_running = FALSE
  /\ pending_camera_restart = FALSE
  /\ pending_model_restart = FALSE
  /\ camera = 0
  /\ cams = [i \in {0} |-> CamClosed]
  /\ engine \in [id : {0}, session : BOOLEAN]     \* the model may fail to load
  /\ stop_call = [pc |-> "idle", cam |-> NoId]
  /\ camera_idx = NoId
  /\ model_path = NoId

\* what the steps of the loop head and of stop() leave alone
cycleState == << now, config, monitoring_active, protection_mode, lockoutVars, censorVars,
                 localVars, vcam_out, log, hist, matched_ids, preview_out, restartLocals >>

\* CameraStream.start: the device opens and the capture thread starts, or not
StartCamera(cs, c, ok) == [cs EXCEPT ![c] = IF ok THEN CamStarted ELSE CamClosed]

\* "if not self.camera.start(): ... return"
RunCameraStart ==
  /\ pc = "start"
  /\ \E ok \in BOOLEAN :
       /\ cams' = StartCamera(cams, camera, ok)
       /\ pc' = IF ok THEN "set_running" ELSE "done"
  /\ last' = NoLast
  /\ emitted' = << >>
  /\ UNCHANGED << cycleState, current_frame, is_running, pending_camera_restart,
                  pending_model_restart, camera, engine, stop_call >>

\* "self.is_running = True", then the virtual camera is opened (or is not)
RunSetRunning ==
  /\ pc = "set_running"
  /\ is_running' = TRUE
  /\ pc' = "top"
  /\ last' = NoLast
  /\ emitted' = << >>
  /\ UNCHANGED << cycleState, current_frame, pending_camera_restart,
                  pending_model_restart, camera, cams, engine, stop_call >>

\* "while self.is_running:"
RunWhile ==
  /\ pc = "top"
  /\ is_running => now < MaxLifeNow
  /\ pc' = IF is_running THEN "restart_camera" ELSE "done"
  /\ last' = NoLast
  /\ emitted' = << >>
  /\ UNCHANGED << cycleState, current_frame, lifeVars >>

\* variant: the camera is replaced at every cycle, requested or not
ShouldRestartAlways(pending) == TRUE

\* "if self.pending_camera_restart:" / "if self.pending_model_restart:"
ShouldRestart(pending) == pending

\* the value of self.camera.start() is not looked at
AfterCameraRestart(ok) == "restart_model"

\* "self.camera.stop(); self.camera = CameraStream(...); self.camera.start();
\*  self.pending_camera_restart = False"
RunCameraRestart ==
  /\ pc = "restart_camera"
  /\ IF ShouldRestart(pending_camera_restart)
     THEN \E ok \in BOOLEAN :
            /\ camera' = camera + 1
            /\ cams' = [ i \in DOMAIN cams \cup {camera + 1} |->
                           IF i = camera + 1 THEN (IF ok THEN CamStarted ELSE CamClosed)
                           ELSE IF i = camera THEN CamClosed ELSE cams[i] ]
            /\ current_frame' = 0
            /\ pending_camera_restart' = FALSE
            /\ pc' = AfterCameraRestart(ok)
     ELSE /\ pc' = "restart_model"
          /\ UNCHANGED << camera, cams, current_frame, pending_camera_restart >>
  /\ last' = NoLast
  /\ emitted' = << >>
  /\ UNCHANGED << cycleState, is_running, pending_model_restart, engine, stop_call >>

\* "self.engine = YoloV8Engine(model_path=model_path);
\*  self.pending_model_restart = False"
RunModelRestart ==
  /\ pc = "restart_model"
  /\ IF ShouldRestart(pending_model_restart)
     THEN /\ \E loaded \in BOOLEAN : engine' = [id |-> engine.id + 1, session |-> loaded]
          /\ pending_model_restart' = FALSE
     ELSE UNCHANGED << engine, pending_model_restart >>
  /\ pc' = "read"
  /\ last' = NoLast
  /\ emitted' = << >>
  /\ UNCHANGED << cycleState, current_frame, is_running, pending_camera_restart,
                  camera, cams, stop_call >>

RunRead == ReadRawFrame("read")

\* The Censorship block of a cycle in two steps, because set_protection_mode
\* clears _active_threats on the UI thread without a lock.  First the cached
\* frame or the tracker update; when regions remain, run() is then inside
\* "for tdata in self._active_threats.values()", blurring one region.
RunCensTrack ==
  /\ pc = "cens_update"
  /\ LET upd == UpdateThreats(active_threats, next_threat_id, boxes)
     IN IF UseLastSafeFrame(inference_slow, last_censored_frame) \/ DOMAIN upd.mem = {}
        THEN RunCensUpdate
        ELSE /\ active_threats' = upd.mem
             /\ next_threat_id' = upd.next
             /\ pc' = "cens_blur"
             /\ last' = NoLast
             /\ emitted' = << >>
             /\ UNCHANGED << now, config, current_frame, monitoring_active,
                             protection_mode, lockoutVars, last_censored_frame,
                             localVars, vcam_out, log, hist, matched_ids, preview_out,
                             lifeVars >>

\* the rest of the blur loop: the dict iterator raises RuntimeError ("dictionary
\* changed size during iteration") at its next step if the dict was cleared
\* meanwhile, and nothing in run() catches it
RunCensBlur ==
  /\ pc = "cens_blur"
  /\ IF DOMAIN active_threats = {}
     THEN /\ pc' = "done"
          /\ UNCHANGED << last_censored_frame, raw_frame >>
     ELSE LET sanitized == Sanitize(IF raw_frame # NoFrame THEN raw_frame ELSE frame,
                                    active_threats, now)
          IN /\ last_censored_frame' = sanitized
             /\ raw_frame' = sanitized
             /\ pc' = "cens_log"
  /\ last' = NoLast
  /\ emitted' = << >>
  /\ UNCHANGED << now, config, current_frame, monitoring_active, protection_mode,
                  lockoutVars, active_threats, next_threat_id, frame, detected,
                  confidence, boxes, inference_slow, branch, vcam_out, log, hist,
                  matched_ids, preview_out, lifeVars >>

\* LensBlockApp._on_mode_changed / _on_mode_toggle on the UI thread
LifeSetMode ==
  /\ stop_call.pc = "idle"
  /\ \E mode \in {"shield", "censorship"} :
       protection_mode # mode /\ SetProtectionMode(mode)

RequestCameraRestart ==
  /\ stop_call.pc = "idle"
  /\ camera < MaxRestarts
  /\ ~pending_camera_restart
  /\ pending_camera_restart' = TRUE
  /\ last' = NoLast
  /\ emitted' = << >>
  /\ UNCHANGED << cycleState, current_frame, pc, is_running, pending_model_restart,
                  camera, cams, engine, stop_call >>

RequestEngineRestart ==
  /\ stop_call.pc = "idle"
  /\ engine.id < MaxRestarts
  /\ ~pending_model_restart
  /\ pending_model_restart' = TRUE
  /\ last' = NoLast
  /\ emitted' = << >>
  /\ UNCHANGED << cycleState, current_frame, pc, is_running, pending_camera_restart,
                  camera, cams, engine, stop_call >>

\* stop(): "self.is_running = False"
StopBegin ==
  /\ stop_call.pc = "idle"
  /\ is_running' = FALSE
  /\ stop_call' = [pc |-> "camera_stop", cam |-> NoId]
  /\ last' = NoLast
  /\ emitted' = << >>
  /\ UNCHANGED << cycleState, current_frame, pc, pending_camera_restart,
                  pending_model_restart, camera, cams, engine >>

\* stop(): "self.camera.stop()" begins on the camera self.camera refers to now:
\* CameraStream.is_running = False and the bounded join of the capture thread
StopCameraJoin ==
  /\ stop_call.pc = "camera_stop"
  /\ cams' = [cams EXCEPT ![camera].thread = FALSE]
  /\ stop_call' = [pc |-> "release", cam |-> camera]
  /\ last' = NoLast
  /\ emitted' = << >>
  /\ UNCHANGED << cycleState, current_frame, pc, is_running, pending_camera_restart,
                  pending_model_restart, camera, engine >>

\* CameraStream.stop continues: "self.cap.release()" and "self.current_frame = None"
StopCameraRelease ==
  /\ stop_call.pc = "release"
  /\ cams' = [cams EXCEPT ![stop_call.cam].cap = FALSE]
  /\ current_frame' = IF stop_call.cam = camera THEN 0 ELSE current_frame
  /\ stop_call' = [stop_call EXCEPT !.pc = "wait"]
  /\ last' = NoLast
  /\ emitted' = << >>
  /\ UNCHANGED << cycleState, pc, is_running, pending_camera_restart,
                  pending_model_restart, camera, engine >>

\* stop(): "self.quit(); self.wait()" returns once run() has returned
StopWait ==
  /\ stop_call.pc = "wait"
  /\ pc = "done"
  /\ stop_call' = [stop_call EXCEPT !.pc = "returned"]
  /\ last' = NoLast
  /\ emitted' = << >>
  /\ UNCHANGED << cycleState, current_frame, pc, is_running, pending_camera_restart,
                  pending_model_restart, camera, cams, engine >>

LifeNext ==
  \/ CamWrite
  \/ RunCameraStart
  \/ RunSetRunning
  \/ RunWhile
  \/ RunCameraRestart
  \/ RunModelRestart
  \/ RunRead
  \/ RunDispatch
  \/ RunShieldEval
  \/ RunShieldBlock
  \/ RunCensTrack
  \/ RunCensBlur
  \/ RunCensLog
  \/ RunEmit
  \/ LifeSetMode
  \/ RequestCameraRestart
  \/ RequestEngineRestart
  \/ StopBegin
  \/ StopCameraJoin
  \/ StopCameraRelease
  \/ StopWait

SpecLife == LifeInit /\ [][LifeNext]_vars


\* the positions of run() between the frame read and the emission of a cycle
MidCycle ==
  {"dispatch", "shield_eval", "shield_block", "cens_update", "cens_blur", "cens_log", "emit"}

\* C22: request_camera_restart and request_engine_restart only set their
\* pending flag; self.camera and self.engine are replaced only by the restart
\* steps at the top of a cycle, before the cycle reads a frame, when the flag
\* is set, and never between the frame read and the emission of a cycle.
C22_RestartOnlyAtTopOfCycle ==
  [][ /\ (~pending_camera_restart /\ pending_camera_restart')
         => UNCHANGED << camera, cams, engine, current_frame, pc, pending_model_restart >>
      /\ (~pending_model_restart /\ pending_model_restart')
         => UNCHANGED << camera, cams, engine, current_frame, pc, pending_camera_restart >>
      /\ camera' # camera
         => /\ pc = "restart_camera" /\ pc' = "restart_model"
            /\ pending_camera_restart /\ ~pending_camera_restart'
      /\ engine' # engine
         => /\ pc = "restart_model" /\ pc' = "read"
            /\ pending_model_restart /\ ~pending_model_restart'
      /\ pc \in MidCycle => (camera' = camera /\ engine' = engine) ]_vars

\* a camera restart was applied at the top of the cycle, and an engine restart
\* requested since then waits while the cycle works on its frame
C22_Witness ==
  /\ pc \in MidCycle
  /\ camera > 0
  /\ pending_model_restart /\ engine.id = 0
  /\ raw_frame # NoFrame

\* C24: once the loop of run() has started, run() ends only from the loop
\* test after is_running was set to False, and only stop() sets it to False;
\* no error ends it, in either protection mode.
C24_OnlyStopEndsTheLoop ==
  [][ /\ (pc # "done" /\ pc' = "done")
         => (pc = "start" \/ (pc = "top" /\ ~is_running))
      /\ (is_running /\ ~is_running')
         => (stop_call.pc = "idle" /\ stop_call'.pc = "camera_stop") ]_vars

----------------------------------------------------------------------------
(* YoloV8Engine: detect and detect_and_censor on the output of one inference.
   Scores are percentages.  A prediction row carries the score of the target
   class ("phone", class 67) and the highest score among the classes before
   it ("other"); in this harness active_threats and next_threat_id are the
   engine's own active_threats and _next_threat_id. *)

MaxAnchors == 2

InputWidth == 640
InputHeight == 640

\* rows of centre and size in input-tensor scale: inside the frame, left of it
AnchorShapes == { [xc |-> 320, yc |-> 320, bw |-> 100, bh |-> 20],
                  [xc |-> -20, yc |-> 320, bw |-> 10,  bh |-> 20] }

\* a phone alone, a phone under a stronger other class, a faint phone
AnchorScores == { [other |-> 5, phone |-> 90],
                  [other |-> 95, phone |-> 90],
                  [other |-> 5, phone |-> 10] }

Anchors == { [xc |-> g.xc, yc |-> g.yc, bw |-> g.bw, bh |-> g.bh,
              other |-> s.other, phone |-> s.phone] :
             g \in AnchorShapes, s \in AnchorScores }

Predictions == UNION { [1..n -> Anchors] : n \in 0..MaxAnchors }

NoReturn == [call |-> "none"]

\* int() of the quotient n / d, d > 0: truncation towards zero
IntOf(n, d) == IF n >= 0 THEN n \div d ELSE -((-n) \div d)

\* np.argmax(class_scores): the first index holding the maximum
ArgMax(pred) == IF pred.other >= pred.phone THEN "other" ELSE "phone"

ScoreOf(pred) == IF ArgMax(pred) = "other" THEN pred.other ELSE pred.phone

\* score >= conf_threshold and class_id == self.target_class_id
IsThreat(pred, thr) == ScoreOf(pred) >= thr /\ ArgMax(pred) = "phone"

\* x1, y1, x2, y2 of a row in a frame fw x fh; bw and bh are even here
DecodeBox(pred, fw, fh) ==
  << Max(0, IntOf((pred.xc - pred.bw \div 2) * fw, InputWidth)),
     Max(0, IntOf((pred.yc - pred.bh \div 2) * fh, InputHeight)),
     Min(fw, IntOf((pred.xc + pred.bw \div 2) * fw, InputWidth)),
     Min(fh, IntOf((pred.yc + pred.bh \div 2) * fh, InputHeight)) >>

RECURSIVE Postprocess(_, _)
\* _postprocess: acc is <<detected, best_confidence>>, starting at <<FALSE, 0>>
Postprocess(preds, acc) ==
  IF preds = << >> THEN acc
  ELSE Postprocess(Tail(preds),
                   IF Head(preds).phone > acc[2]
                   THEN << TRUE, Head(preds).phone >> ELSE acc)

NoGather == [dets |-> << >>, best |-> 0, detected |-> FALSE, count |-> 0]

RECURSIVE GatherDetections(_, _, _)
\* the loop over the rows in detect_and_censor
GatherDetections(preds, thr, acc) ==
  IF preds = << >> THEN acc
  ELSE LET p == Head(preds)
       IN GatherDetections(Tail(preds), thr,
            IF ScoreOf(p) < thr THEN acc
            ELSE IF ~IsThreat(p, thr) THEN [acc EXCEPT !.count = @ + 1]
            ELSE [ dets |-> Append(acc.dets, DecodeBox(p, FrameW, FrameH)),
                   best |-> IF ScoreOf(p) > acc.best THEN ScoreOf(p) ELSE acc.best,
                   detected |-> acc.detected \/ ScoreOf(p) > acc.best,
                   count |-> acc.count + 1 ])

\* variant: an exception of the backend is not caught
InferenceFailedWithoutSession(session, raised) == ~session

\* self.session is None, or self.session.run raised
InferenceFailed(session, raised) == ~session \/ raised

ThreatCooldownFrames == 10       \* THREAT_COOLDOWN_FRAMES

\* _iou, as the fraction <<inter, union>>
EngineIou(boxA, boxB) ==
  LET xA == Max(boxA[1], boxB[1])
      yA == Max(boxA[2], boxB[2])
      xB == Min(boxA[3], boxB[3])
      yB == Min(boxA[4], boxB[4])
      inter == Max(0, xB - xA) * Max(0, yB - yA)
      areaA == (boxA[3] - boxA[1]) * (boxA[4] - boxA[2])
      areaB == (boxB[3] - boxB[1]) * (boxB[4] - boxB[2])
      union == areaA + areaB - inter
  IN IF union > 0 THEN << inter, union >> ELSE << 0, 1 >>

RECURSIVE EngineBestMatch(_, _, _, _)
\* "for tid, threat in self.active_threats.items()" with best = <<best_iou,
\* best_match_id>>, which starts at <<0.3, None>>
EngineBestMatch(det_box, mem, ids, best) ==
  IF ids = << >> THEN best
  ELSE LET tid == Head(ids)
           iou == EngineIou(det_box, mem[tid].box)
       IN EngineBestMatch(det_box, mem, Tail(ids),
            IF FracGreater(iou, best[1]) THEN << iou, tid >> ELSE best)

\* one iteration of "for det_box in current_detections" on st = [mem, next, matched]
EngineTrackBox(st, det_box) ==
  LET best == EngineBestMatch(det_box, st.mem, SortedIds(DOMAIN st.mem),
                              << << 3, 10 >>, NoId >>)
  IN IF best[2] # NoId
     THEN [ mem |-> [ st.mem EXCEPT ![best[2]] = [box |-> det_box, cooldown |-> 0] ],
            next |-> st.next,
            matched |-> st.matched \cup {best[2]} ]
     ELSE [ mem |-> [ t \in DOMAIN st.mem \cup {st.next} |->
                        IF t = st.next THEN [box |-> det_box, cooldown |-> 0]
                        ELSE st.mem[t] ],
            next |-> st.next + 1,
            matched |-> st.matched \cup {st.next} ]

RECURSIVE EngineTrackBoxes(_, _)
EngineTrackBoxes(st, dets) ==
  IF dets = << >> THEN st ELSE EngineTrackBoxes(EngineTrackBox(st, Head(dets)), Tail(dets))

\* variant: "cooldown >= THREAT_COOLDOWN_FRAMES", the region goes one frame early
EngineAgeThreatsEvictAtLimit(mem, matched) ==
  LET aged == [ t \in DOMAIN mem |->
                  IF t \notin matched THEN [ mem[t] EXCEPT !.cooldown = @ + 1 ]
                  ELSE mem[t] ]
      expired == { t \in DOMAIN mem :
                     t \notin matched /\ aged[t].cooldown >= ThreatCooldownFrames }
  IN [ t \in DOMAIN mem \ expired |-> aged[t] ]

\* "Age out unmatched threats" and the deletion of the expired ones
EngineAgeThreats(mem, matched) ==
  LET aged == [ t \in DOMAIN mem |->
                  IF t \notin matched THEN [ mem[t] EXCEPT !.cooldown = @ + 1 ]
                  ELSE mem[t] ]
      expired == { t \in DOMAIN mem :
                     t \notin matched /\ aged[t].cooldown > ThreatCooldownFrames }
  IN [ t \in DOMAIN mem \ expired |-> aged[t] ]

\* the hysteresis buffer of detect_and_censor
EngineUpdateThreats(mem, next, dets) ==
  LET st == EngineTrackBoxes([mem |-> mem, next |-> next, matched |-> {}], dets)
  IN [ mem |-> EngineAgeThreats(st.mem, st.matched), next |-> st.next,
       matched |-> st.matched ]

EngineInit ==
  /\ now = 0
  /\ config \in [thr : ThrChoices, pers : {1}, log : {TRUE}, lock : {LockoutTicks}]
  /\ current_frame = 1
  /\ monitoring_active = TRUE
  /\ protection_mode = "censorship"
  /\ consecutive_threat_frames = 0
  /\ is_threat_active = FALSE
  /\ incident_start_time = NoTime
  /\ max_threat_confidence = InitialConfidence
  /\ lockout_end_time = InitialLockoutEnd
  /\ active_threats = << >>
  /\ next_threat_id = 0
  /\ last_censored_frame = NoFrame
  /\ pc = "engine_new"
  /\ raw_frame = NoFrame
  /\ frame = LiveFrame(1)
  /\ detected = FALSE
  /\ confidence = 0
  /\ boxes = << >>
  /\ inference_slow = FALSE
  /\ branch = "none"
  /\ vcam_out = NoFrame
  /\ log = << >>
  /\ emitted = << >>
  /\ last = NoLast
  /\ hist = NoReturn
  /\ matched_ids = {}
  /\ preview_out = NoFrame
  /\ is_running = TRUE
  /\ pending_camera_restart = FALSE
  /\ pending_model_restart = FALSE
  /\ camera = 0
  /\ cams = [i \in {0} |-> CamStarted]
  /\ engine \in [id : {0}, session : BOOLEAN]
  /\ stop_call = [pc |-> "idle", cam |-> NoId]
  /\ camera_idx = NoId
  /\ model_path = NoId

engineFixed == << now, config, current_frame, monitoring_active, protection_mode,
                  lockoutVars, last_censored_frame, raw_frame, frame, inference_slow,
                  branch, vcam_out, log, emitted, last, matched_ids, boxes,
                  preview_out, lifeVars >>

\* the harness calls the engine twice
AfterCall(p) == IF p = "engine_new" THEN "engine_used" ELSE "engine_done"

\* detect(frame) on an inference that yields preds or raises
CallDetect ==
  /\ pc \in {"engine_new", "engine_used"}
  /\ \E preds \in Predictions, raised \in BOOLEAN :
       LET r == IF InferenceFailed(engine.session, raised)
                THEN << FALSE, 0 >> ELSE Postprocess(preds, << FALSE, 0 >>)
       IN /\ detected' = r[1]
          /\ confidence' = r[2]
          /\ hist' = [call |-> "detect", preds |-> preds, raised |-> raised,
                      thr |-> 0, outcome |-> "returned", dets |-> << >>, count |-> 0,
                      clean |-> frame]
  /\ pc' = AfterCall(pc)
  /\ UNCHANGED << active_threats, next_threat_id >>
  /\ UNCHANGED engineFixed

\* detect_and_censor(frame, conf_threshold) on an inference that yields preds
\* or raises
CallDetectAndCensor ==
  /\ pc \in {"engine_new", "engine_used"}
  /\ \E preds \in Predictions, raised \in BOOLEAN :
       IF InferenceFailed(engine.session, raised)
       THEN /\ detected' = FALSE
            /\ confidence' = 0
            /\ hist' = [call |-> "censor", preds |-> preds, raised |-> raised,
                        thr |-> config.thr, outcome |-> "returned", dets |-> << >>,
                        count |-> 0, clean |-> frame]
            /\ UNCHANGED << active_threats, next_threat_id >>
       ELSE LET g == GatherDetections(preds, config.thr, NoGather)
                upd == EngineUpdateThreats(active_threats, next_threat_id, g.dets)
            IN /\ detected' = g.detected
               /\ confidence' = g.best
               /\ active_threats' = upd.mem
               /\ next_threat_id' = upd.next
               /\ hist' = [call |-> "censor", preds |-> preds, raised |-> raised,
                           thr |-> config.thr, outcome |-> "returned", dets |-> g.dets,
                           count |-> g.count,
                           clean |-> [frame EXCEPT !.blur =
                                        { PadBox(upd.mem[i].box, FrameW, FrameH) :
                                          i \in DOMAIN upd.mem }]]
  /\ pc' = AfterCall(pc)
  /\ UNCHANGED engineFixed

EngineNext == CallDetect \/ CallDetectAndCensor

SpecEngine == EngineInit /\ [][EngineNext]_vars

EngineCalled == pc \in {"engine_used", "engine_done"}


\* C23: a call of detect or detect_and_censor on an engine without a session,
\* or whose backend raises during inference, returns without raising, reports
\* no detection with confidence 0.0 and zero detections, and leaves the threat
\* memory and the next threat id as they were.
C23_FailedCallDegrades ==
  [][ (pc' # pc /\ (~engine.session \/ hist'.raised))
      => /\ hist'.outcome = "returned"
         /\ ~detected' /\ confidence' = 0
         /\ hist'.count = 0 /\ hist'.dets = << >>
         /\ hist'.clean = frame
         /\ active_threats' = active_threats
         /\ next_threat_id' = next_threat_id ]_vars

\* the backend raised in detect_and_censor on rows holding a phone, while the
\* memory held a region from the call before
C23_Witness ==
  /\ pc = "engine_done"
  /\ hist.call = "censor" /\ engine.session /\ hist.raised
  /\ \E i \in DOMAIN hist.preds : IsThreat(hist.preds[i], hist.thr)
  /\ DOMAIN active_threats # {}
  /\ ~detected

RECURSIVE MaxPhoneScore(_)
MaxPhoneScore(preds) ==
  IF preds = << >> THEN 0 ELSE Max(Head(preds).phone, MaxPhoneScore(Tail(preds)))

\* C26: after a detect_and_censor call whose inference succeeded, the rows
\* gathered for blurring are exactly the rows whose phone score reaches the
\* threshold, whatever their other scores; after a detect call whose inference
\* succeeded the confidence is the largest phone score of all rows.
C26_TargetScoreDecides ==
  (EngineCalled /\ engine.session /\ ~hist.raised)
  => /\ hist.call = "censor"
        => Len(hist.dets) =
             Cardinality({ i \in DOMAIN hist.preds : hist.preds[i].phone >= hist.thr })
     /\ hist.call = "detect" => confidence = MaxPhoneScore(hist.preds)

\* C27: every box gathered by detect_and_censor lies within the frame, with
\* its corners in order: 0 <= x1 <= x2 <= width and 0 <= y1 <= y2 <= height.
C27_BoxesWithinFrame ==
  (EngineCalled /\ hist.call = "censor")
  => \A i \in DOMAIN hist.dets :
       LET b == hist.dets[i]
       IN /\ 0 <= b[1] /\ b[1] <= b[3] /\ b[3] <= FrameW
          /\ 0 <= b[2] /\ b[2] <= b[4] /\ b[4] <= FrameH


----------------------------------------------------------------------------
(* Audit trail and reset of the lockout machine across the UI calls *)

\* C31: with logging enabled, every step that takes the controller from
\* Lockdown back to Armed (the timer exit of _evaluate_state, pause_monitoring,
\* set_protection_mode) adds exactly one audit record, so that every entry
\* into Lockdown has its record once the controller is Armed again.
C31_EveryLockdownIsRecorded ==
  [][ (is_threat_active /\ ~is_threat_active' /\ config.log)
      => (Len(log') = Len(log) + 1 /\ SubSeq(log', 1, Len(log)) = log) ]_vars


\* C32: right after pause_monitoring the lockout machine is in its initial
\* state, also when Lockdown was not active at the call: the consecutive
\* counter is 0, so that after resume_monitoring Lockdown needs
\* persistence_frames new consecutive qualifying frames.
C32_PauseResetsLockoutMachine ==
  last.act = "pause" =>
    /\ consecutive_threat_frames = 0
    /\ ~is_threat_active
    /\ incident_start_time = NoTime
    /\ max_threat_confidence = InitialConfidence
    /\ lockout_end_time = InitialLockoutEnd


----------------------------------------------------------------------------
(* Hot reload: the two restart blocks at the head of the loop of run(), one
   statement at a time, against the camera and model selectors of the settings
   dashboard.  Here config also carries system.camera_index (cam) and
   detection.model_path (model), a camera record carries the index it was
   built with and the engine record the path it was built with. *)

MaxCameraIndex == 1

CameraIndexes == 0..MaxCameraIndex

DefaultModelPath == "models/yolov8n.onnx"
ModelPaths == { DefaultModelPath, "models/yolov8s.onnx" }

ReloadInit ==
  /\ now = 1
  /\ config = [thr |-> 60, pers |-> 3, log |-> TRUE, lock |-> 10,
               cam |-> 0, model |-> DefaultModelPath]
  /\ current_frame = 0
  /\ monitoring_active = TRUE
  /\ protection_mode = "shield"
  /\ consecutive_threat_frames = 0
  /\ is_threat_active = FALSE
  /\ incident_start_time = NoTime
  /\ max_threat_confidence = InitialConfidence
  /\ lockout_end_time = InitialLockoutEnd
  /\ active_threats = << >>
  /\ next_threat_id = 0
  /\ last_censored_frame = NoFrame
  /\ pc = "while"
  /\ raw_frame = NoFrame
  /\ frame = NoFrame
  /\ detected = FALSE
  /\ confidence = 0
  /\ boxes = << >>
  /\ inference_slow = FALSE
  /\ branch = "none"
  /\ vcam_out = NoFrame
  /\ log = << >>
  /\ emitted = << >>
  /\ last = NoLast
  /\ hist = << >>
  /\ matched_ids = {}
  /\ preview_out = NoFrame
  /\ is_running = TRUE
  /\ pending_camera_restart = FALSE
  /\ pending_model_restart = FALSE
  /\ camera = 0
  /\ cams = [i \in {0} |-> [thread |-> TRUE, cap |-> TRUE, index |-> 0]]
  /\ engine = [id |-> 0, session |-> TRUE, path |-> DefaultModelPath]
  /\ stop_call = [pc |-> "idle", cam |-> NoId]
  /\ camera_idx = NoId
  /\ model_path = NoId

reloadFixed == << now, current_frame, monitoring_active, protection_mode, lockoutVars,
                  censorVars, localVars, vcam_out, log, emitted, last, hist,
                  matched_ids, preview_out, is_running, camera, stop_call >>

\* "while self.is_running:"
ReloadWhile ==
  /\ pc = "while" /\ is_running
  /\ pc' = "camera_test"
  /\ UNCHANGED << config, pending_camera_restart, pending_model_restart, cams, engine,
                  restartLocals, reloadFixed >>

\* "if self.pending_camera_restart:"
ReloadCameraTest ==
  /\ pc = "camera_test"
  /\ pc' = IF pending_camera_restart THEN "camera_get" ELSE "model_test"
  /\ UNCHANGED << config, pending_camera_restart, pending_model_restart, cams, engine,
                  restartLocals, reloadFixed >>

\* "camera_idx = self.config.get('system', 'camera_index', 0)"
ReloadCameraGet ==
  /\ pc = "camera_get"
  /\ camera_idx' = config.cam
  /\ pc' = "camera_build"
  /\ UNCHANGED << config, pending_camera_restart, pending_model_restart, cams, engine,
                  model_path, reloadFixed >>

\* "self.camera.stop(); self.camera = CameraStream(camera_index=camera_idx);
\*  self.camera.start()"
ReloadCameraBuild ==
  /\ pc = "camera_build"
  /\ \E ok \in BOOLEAN :
       cams' = [cams EXCEPT ![camera] = [thread |-> ok, cap |-> ok, index |-> camera_idx]]
  /\ pc' = "camera_clear"
  /\ UNCHANGED << config, pending_camera_restart, pending_model_restart, engine,
                  restartLocals, reloadFixed >>

\* "self.pending_camera_restart = False"
ReloadCameraClear ==
  /\ pc = "camera_clear"
  /\ pending_camera_restart' = FALSE
  /\ pc' = "model_test"
  /\ UNCHANGED << config, pending_model_restart, cams, engine, restartLocals,
                  reloadFixed >>

\* "if self.pending_model_restart:"
ReloadModelTest ==
  /\ pc = "model_test"
  /\ pc' = IF pending_model_restart THEN "model_get" ELSE "cycle"
  /\ UNCHANGED << config, pending_camera_restart, pending_model_restart, cams, engine,
                  restartLocals, reloadFixed >>

\* "model_path = self.config.get('detection', 'model_path', 'models/yolov8n.onnx')"
ReloadModelGet ==
  /\ pc = "model_get"
  /\ model_path' = config.model
  /\ pc' = "model_build"
  /\ UNCHANGED << config, pending_camera_restart, pending_model_restart, cams, engine,
                  camera_idx, reloadFixed >>

\* "self.engine = YoloV8Engine(model_path=model_path)"
ReloadModelBuild ==
  /\ pc = "model_build"
  /\ \E loaded \in BOOLEAN :
       engine' = [id |-> engine.id, session |-> loaded, path |-> model_path]
  /\ pc' = "model_clear"
  /\ UNCHANGED << config, pending_camera_restart, pending_model_restart, cams,
                  restartLocals, reloadFixed >>

\* "self.pending_model_restart = False"
ReloadModelClear ==
  /\ pc = "model_clear"
  /\ pending_model_restart' = FALSE
  /\ pc' = "cycle"
  /\ UNCHANGED << config, pending_camera_restart, cams, engine, restartLocals,
                  reloadFixed >>

\* the rest of the iteration, which touches neither the flags nor the settings
ReloadCycle ==
  /\ pc = "cycle"
  /\ pc' = "while"
  /\ UNCHANGED << config, pending_camera_restart, pending_model_restart, cams, engine,
                  restartLocals, reloadFixed >>

\* SettingsDashboard._camera_changed: config.set, then the signal that calls
\* request_camera_restart
CameraChanged ==
  /\ \E v \in CameraIndexes \ {config.cam} : config' = [config EXCEPT !.cam = v]
  /\ pending_camera_restart' = TRUE
  /\ UNCHANGED << pc, pending_model_restart, cams, engine, restartLocals, reloadFixed >>

\* SettingsDashboard._model_changed: config.set, then the signal that calls
\* request_engine_restart
ModelChanged ==
  /\ \E v \in ModelPaths \ {config.model} : config' = [config EXCEPT !.model = v]
  /\ pending_model_restart' = TRUE
  /\ UNCHANGED << pc, pending_camera_restart, cams, engine, restartLocals, reloadFixed >>

ReloadNext ==
  \/ ReloadWhile
  \/ ReloadCameraTest
  \/ ReloadCameraGet
  \/ ReloadCameraBuild
  \/ ReloadCameraClear
  \/ ReloadModelTest
  \/ ReloadModelGet
  \/ ReloadModelBuild
  \/ ReloadModelClear
  \/ ReloadCycle
  \/ CameraChanged
  \/ ModelChanged

SpecReload == ReloadInit /\ [][ReloadNext]_vars

\* C33: no camera or model change is lost.  Whenever run() is outside a
\* restart block and the block's flag is down, nothing will rebuild the
\* object any more, so the camera in use was built with the configured camera
\* index and the engine in use with the configured model path.
C33_NoReloadRequestLost ==
  /\ (~pending_camera_restart /\ pc \notin {"camera_get", "camera_build", "camera_clear"})
       => cams[camera].index = config.cam
  /\ (~pending_model_restart /\ pc \notin {"model_get", "model_build", "model_clear"})
       => engine.path = config.model


----------------------------------------------------------------------------
(* stop() against run() from its first statement on (SpecLife) *)

\* C34: stop() always ends the controller.  Once stop() has been called
\* is_running is False and stays False, so that the loop of run() exits at its
\* next test, and when stop() has returned no camera of the controller has a
\* capture thread running or a device open.
C34_StopAlwaysTerminates ==
  /\ stop_call.pc # "idle" => ~is_running
  /\ stop_call.pc = "returned"
       => \A i \in DOMAIN cams : ~cams[i].thread /\ ~cams[i].cap


----------------------------------------------------------------------------
(* CameraStream: start(), the capture thread _update, read() and stop(), one
   statement at a time.  The record of the camera carries is_running, whether
   the thread is alive, whether the device is open, the position of _update
   (at), its local frame (got) and the number of frames the device has
   delivered (seq); current_frame is the slot, 0 for None. *)

NewCamera == [is_running |-> FALSE, thread |-> FALSE, cap |-> FALSE,
              at |-> "none", got |-> 0, seq |-> 0]

CameraInit ==
  /\ now = 1
  /\ config = DefaultSettings
  /\ current_frame = 0
  /\ monitoring_active = TRUE
  /\ protection_mode = "shield"
  /\ consecutive_threat_frames = 0
  /\ is_threat_active = FALSE
  /\ incident_start_time = NoTime
  /\ max_threat_confidence = InitialConfidence
  /\ lockout_end_time = InitialLockoutEnd
  /\ active_threats = << >>
  /\ next_threat_id = 0
  /\ last_censored_frame = NoFrame
  /\ pc = "camera"
  /\ raw_frame = NoFrame
  /\ frame = NoFrame
  /\ detected = FALSE
  /\ confidence = 0
  /\ boxes = << >>
  /\ inference_slow = FALSE
  /\ branch = "none"
  /\ vcam_out = NoFrame
  /\ log = << >>
  /\ emitted = << >>
  /\ last = NoLast
  /\ hist = << >>
  /\ matched_ids = {}
  /\ preview_out = NoFrame
  /\ is_running = TRUE
  /\ pending_camera_restart = FALSE
  /\ pending_model_restart = FALSE
  /\ camera = 0
  /\ cams = [i \in {0} |-> NewCamera]
  /\ engine = [id |-> 0, session |-> TRUE]
  /\ stop_call = [pc |-> "idle", cam |-> NoId]
  /\ camera_idx = NoId
  /\ model_path = NoId

cameraFixed == << now, config, monitoring_active, protection_mode, lockoutVars,
                  censorVars, pc, raw_frame, detected, confidence, boxes,
                  inference_slow, branch, vcam_out, log, emitted, last, hist,
                  matched_ids, preview_out, is_running, pending_camera_restart,
                  pending_model_restart, camera, engine, restartLocals >>

Cam == cams[camera]

\* start(): the device opens or does not; on success is_running = True and the
\* capture thread is started
CameraStart ==
  /\ stop_call.pc = "idle"
  /\ ~Cam.is_running /\ Cam.at = "none"
  /\ \E ok \in BOOLEAN :
       cams' = [cams EXCEPT ![camera] =
                  IF ok THEN [@ EXCEPT !.is_running = TRUE, !.thread = TRUE,
                                       !.cap = TRUE, !.at = "test"]
                  ELSE [@ EXCEPT !.at = "failed"]]
  /\ UNCHANGED << current_frame, frame, stop_call, cameraFixed >>

\* _update: "while self.is_running:" and "if self.cap and self.cap.isOpened():"
UpdateTest ==
  /\ Cam.at = "test"
  /\ cams' = [cams EXCEPT ![camera] =
                IF ~@.is_running THEN [@ EXCEPT !.at = "ended", !.thread = FALSE]
                ELSE IF @.cap THEN [@ EXCEPT !.at = "reading"]
                ELSE [@ EXCEPT !.at = "sleep"]]
  /\ UNCHANGED << current_frame, frame, stop_call, cameraFixed >>

\* "ret, frame = self.cap.read()" returns.  The call was entered on an open
\* device; it yields the next frame or fails, also when stop() has released
\* the device while the call was in progress.
UpdateRead ==
  /\ Cam.at = "reading"
  /\ \E ret \in BOOLEAN :
       /\ ret => Cam.seq < MaxCapture
       /\ cams' = [cams EXCEPT ![camera] =
                     IF ret THEN [@ EXCEPT !.at = "write", !.got = Cam.seq + 1,
                                           !.seq = @ + 1]
                     ELSE [@ EXCEPT !.at = "sleep"]]
  /\ UNCHANGED << current_frame, frame, stop_call, cameraFixed >>

\* "with self.lock: self.current_frame = frame"
UpdateWrite ==
  /\ Cam.at = "write"
  /\ current_frame' = Cam.got
  /\ cams' = [cams EXCEPT ![camera].at = "sleep"]
  /\ UNCHANGED << frame, stop_call, cameraFixed >>

\* "time.sleep(sleep_time)"
UpdateSleep ==
  /\ Cam.at = "sleep"
  /\ cams' = [cams EXCEPT ![camera].at = "test"]
  /\ UNCHANGED << current_frame, frame, stop_call, cameraFixed >>

\* read(): a copy of the slot, under the lock
CameraRead ==
  /\ frame' = LiveFrame(current_frame)
  /\ frame' # frame
  /\ UNCHANGED << current_frame, cams, stop_call, cameraFixed >>

\* stop(): "self.is_running = False"
CameraStopBegin ==
  /\ stop_call.pc = "idle"
  /\ Cam.at \notin {"none", "failed"}
  /\ cams' = [cams EXCEPT ![camera].is_running = FALSE]
  /\ stop_call' = [pc |-> "join", cam |-> camera]
  /\ UNCHANGED << current_frame, frame, cameraFixed >>

\* "self.thread.join(timeout=1.0)": returns when the thread has ended, or
\* after the timeout while the thread is inside the device read
CameraStopJoin ==
  /\ stop_call.pc = "join"
  /\ Cam.at \in {"ended", "reading"}
  /\ stop_call' = [stop_call EXCEPT !.pc = "release"]
  /\ UNCHANGED << current_frame, frame, cams, cameraFixed >>

\* "if self.cap and self.cap.isOpened(): self.cap.release()"
CameraStopRelease ==
  /\ stop_call.pc = "release"
  /\ cams' = [cams EXCEPT ![camera].cap = FALSE]
  /\ stop_call' = [stop_call EXCEPT !.pc = "clear"]
  /\ UNCHANGED << current_frame, frame, cameraFixed >>

\* "with self.lock: self.current_frame = None", and stop() returns
CameraStopClear ==
  /\ stop_call.pc = "clear"
  /\ current_frame' = 0
  /\ stop_call' = [stop_call EXCEPT !.pc = "returned"]
  /\ UNCHANGED << frame, cams, cameraFixed >>

CameraNext ==
  \/ CameraStart
  \/ UpdateTest
  \/ UpdateRead
  \/ UpdateWrite
  \/ UpdateSleep
  \/ CameraRead
  \/ CameraStopBegin
  \/ CameraStopJoin
  \/ CameraStopRelease
  \/ CameraStopClear

SpecCamera == CameraInit /\ [][CameraNext]_vars

\* C35: once stop() of the camera has returned the latest-frame slot is
\* empty: no write of the capture thread lands after stop() cleared the slot,
\* also when the join timed out with the thread inside a device read.
C35_SlotStaysEmptyAfterStop ==
  stop_call.pc = "returned" => current_frame = 0


----------------------------------------------------------------------------
(* _evaluate_state under every value of persistence_frames: the settings file
   is read without validation, so the value may be zero or negative *)

SettingsInit == EvalInitWith((-1)..MaxPersistence)

SpecSettings == SettingsInit /\ [][EvalNext]_vars

\* C36: a non-qualifying frame evaluated in Lockdown after the lockout has run
\* out returns the controller to Armed, whatever the settings are; with frames
\* that keep coming, none of them qualifying, and a clock that advances, this
\* call comes, so Lockdown ends.
C36_LockdownEndsOnceExpired ==
  [][ (is_threat_active /\ now > lockout_end_time
       /\ last'.act = "eval" /\ ~last'.qual)
      => ~is_threat_active' ]_vars


----------------------------------------------------------------------------
(* The two region trackers side by side: the inline tracker of run() on
   _active_threats / _next_threat_id, and the tracker of detect_and_censor on
   the engine's active_threats / _next_threat_id (here fields of the engine
   record), fed the same boxes frame after frame, with the two clears:
   set_protection_mode on the controller, clear_threat_memory on the engine. *)

TwinInit ==
  /\ now = 0
  /\ config \in [thr : ThrChoices, pers : {1}, log : {TRUE}, lock : {LockoutTicks}]
  /\ current_frame = 0
  /\ monitoring_active = TRUE
  /\ protection_mode = "censorship"
  /\ consecutive_threat_frames = 0
  /\ is_threat_active = FALSE
  /\ incident_start_time = NoTime
  /\ max_threat_confidence = InitialConfidence
  /\ lockout_end_time = InitialLockoutEnd
  /\ active_threats = << >>
  /\ next_threat_id = 0
  /\ last_censored_frame = NoFrame
  /\ pc = "twin"
  /\ raw_frame = NoFrame
  /\ frame = NoFrame
  /\ detected = FALSE
  /\ confidence = 0
  /\ boxes = << >>
  /\ inference_slow = FALSE
  /\ branch = "censorship"
  /\ vcam_out = NoFrame
  /\ log = << >>
  /\ emitted = << >>
  /\ last = NoLast
  /\ hist = {}
  /\ matched_ids = {}
  /\ preview_out = NoFrame
  /\ is_running = TRUE
  /\ pending_camera_restart = FALSE
  /\ pending_model_restart = FALSE
  /\ camera = 0
  /\ cams = [i \in {0} |-> CamStarted]
  /\ engine = [id |-> 0, session |-> TRUE, active_threats |-> << >>,
               next_threat_id |-> 0]
  /\ stop_call = [pc |-> "idle", cam |-> NoId]
  /\ camera_idx = NoId
  /\ model_path = NoId

\* the detections of a frame: none, one object, the object with a second
\* detection half over it, a neighbour listed before the object
TwinBoxLists == { << >>,
                  << <<0, 0, 100, 100>> >>,
                  << <<0, 0, 100, 100>>, <<50, 0, 150, 100>> >>,
                  << <<70, 0, 170, 100>>, <<0, 0, 100, 100>> >> }

twinFixed == << config, current_frame, monitoring_active, lockoutVars,
                raw_frame, frame, detected, confidence, inference_slow, branch,
                vcam_out, log, emitted, pc, preview_out, is_running,
                pending_camera_restart, pending_model_restart, camera, cams, stop_call,
                restartLocals >>

\* one frame: the same boxes go through both trackers; matched_ids and hist
\* keep the matched sets of the controller and of the engine
TwinFrame ==
  /\ now < MaxTrackFrames
  /\ \E bs \in TwinBoxLists :
       LET st == TrackBoxes([mem |-> active_threats, next |-> next_threat_id,
                             matched |-> {}], bs)
           eng == EngineUpdateThreats(engine.active_threats, engine.next_threat_id, bs)
       IN /\ boxes' = bs
          /\ active_threats' = AgeThreats(st.mem, st.matched)
          /\ next_threat_id' = st.next
          /\ matched_ids' = st.matched
          /\ engine' = [engine EXCEPT !.active_threats = eng.mem,
                                      !.next_threat_id = eng.next]
          /\ hist' = eng.matched
  /\ now' = now + 1
  /\ last' = [act |-> "track", active |-> FALSE, lockEnd |-> InitialLockoutEnd,
              qual |-> FALSE]
  /\ UNCHANGED << protection_mode, last_censored_frame, twinFixed >>

\* set_protection_mode from the UI
TwinSetMode ==
  /\ \E mode \in {"shield", "censorship"} :
       protection_mode # mode /\ SetProtectionMode(mode)

\* clear_threat_memory
ClearThreatMemory ==
  /\ engine' = [engine EXCEPT !.active_threats = << >>, !.next_threat_id = 0]
  /\ last' = [act |-> "clear_engine", active |-> FALSE, lockEnd |-> InitialLockoutEnd,
              qual |-> FALSE]
  /\ UNCHANGED << now, protection_mode, active_threats, next_threat_id,
                  last_censored_frame, boxes, matched_ids, hist, twinFixed >>

TwinNext == TwinFrame \/ TwinSetMode \/ ClearThreatMemory

SpecTwin == TwinInit /\ [][TwinNext]_vars


RegionsWellFormed(mem, next) ==
  \A id \in DOMAIN mem :
    /\ id >= 0 /\ id < next
    /\ mem[id].cooldown >= 0 /\ mem[id].cooldown <= 10

MatchedAreFresh(mem, matched) ==
  \A id \in matched : id \in DOMAIN mem /\ mem[id].cooldown = 0

\* the ids a step hands out were never handed out since the counter was last reset
FreshIds(mem, next, memAfter, nextAfter) ==
  /\ nextAfter >= next
  /\ \A id \in DOMAIN memAfter \ DOMAIN mem : id >= next /\ id < nextAfter

\* C37: in the controller's memory and in the engine's, after every tracking
\* step and every clear: every region id is below the next-id counter, every
\* stored cooldown is between 0 and 10, a region matched in the step has
\* cooldown 0; a step gives a new region an id at or above the counter's value
\* before the step, and the counter goes down only when clear_threat_memory
\* resets it to 0 together with an empty memory.
C37_ThreatMemoryInvariants ==
  /\ [](/\ RegionsWellFormed(active_threats, next_threat_id)
        /\ RegionsWellFormed(engine.active_threats, engine.next_threat_id)
        /\ last.act = "track"
             => /\ MatchedAreFresh(active_threats, matched_ids)
                /\ MatchedAreFresh(engine.active_threats, hist))
  /\ [][ /\ FreshIds(active_threats, next_threat_id, active_threats', next_threat_id')
         /\ \/ FreshIds(engine.active_threats, engine.next_threat_id,
                        engine'.active_threats, engine'.next_threat_id)
            \/ /\ last'.act = "clear_engine"
               /\ engine'.active_threats = << >> /\ engine'.next_threat_id = 0 ]_vars

\* a frame in which one region is matched while another has gone ten frames
\* without a match, in both memories, after the engine's counter was reset
C37_Witness ==
  /\ last.act = "track"
  /\ matched_ids # {} /\ hist # matched_ids
  /\ \E id \in DOMAIN active_threats : active_threats[id].cooldown = 10
  /\ \E id \in DOMAIN engine.active_threats : engine.active_threats[id].cooldown = 10

\* C38: fed the same boxes, the tracker of run() and the tracker of
\* detect_and_censor go from equal memories and equal next-id counters to equal
\* memories and equal counters, matching the same regions; both start empty
\* with counter 0, so they agree after every frame.
C38_TrackersAgree ==
  [][ (last'.act = "track" /\ now' = now + 1
       /\ active_threats = engine.active_threats
       /\ next_threat_id = engine.next_threat_id)
      => /\ active_threats' = engine'.active_threats
         /\ next_threat_id' = engine'.next_threat_id
         /\ matched_ids' = hist' ]_vars

\* after the last frame both memories hold the same two regions, one of them
\* about to expire
C38_Witness ==
  /\ last.act = "track" /\ now = MaxTrackFrames
  /\ active_threats = engine.active_threats
  /\ next_threat_id = engine.next_threat_id /\ next_threat_id = 2
  /\ Cardinality(DOMAIN active_threats) = 2
  /\ \E id \in DOMAIN active_threats : active_threats[id].cooldown = 10

====
